---- MODULE Spec2Model ----
(***************************************************************************)
(* State-machine model of emu_cxx_utils: the cas_mutex spin lock, the      *)
(* repl_for_each nodelet walk, the reducer framework and the replication   *)
(* wrappers repl<T> / repl_shallow<T>.                                     *)
(*                                                                         *)
(* Each component has its own specification (SpecMutex, SpecWalk, ...).    *)
(* A component's specification leaves the variables of the other           *)
(* components at their idle values.                                        *)
(***************************************************************************)
EXTENDS Integers, Sequences, FiniteSets, TLC

VARIABLES
    nodelets,     \* value returned by NODELETS()
    lock_,        \* cas_mutex::lock_
    mpc,          \* per thread: position inside cas_mutex::lock()/unlock()
    wpc,          \* the caller of repl_for_each: "idle", "running", "returned"
    policy,       \* execution policy of the walk: "seq" or "par"
    grain,        \* Grain of parallel_policy<Grain>
    tasks,        \* the tasks of the walk; tasks[1] is the calling task
    started,      \* per nodelet: worker invocations begun on its copy
    completed,    \* per nodelet: worker invocations finished on its copy
    hints,        \* number of cilk_migrate_hint calls issued
    monoid,       \* value type of op_add<T>: "long" or "double"
    views,        \* the reducer instances; views[0] is default-constructed
    retried,      \* some compare-and-swap of op_add<double>::reduce has failed
    loc,          \* NODE_ID() of the task using the replicated objects
    rv,           \* the repl<T> objects: per-nodelet copies of val, last operation
    sh,           \* the repl_shallow<T> object: per-nodelet copies of T, destructor runs
    dp,           \* the repl_deep<T> object: per-nodelet copies of T and their buffers
    akind,        \* the array class in use: "striped" (striped_array) or "repl" (repl_array)
    arr,          \* the array objects: per-nodelet copies of ptr_/data_ and n_/size_
    bufs,         \* every buffer mw_malloc1dlong / mw_mallocrepl has returned
    run,          \* the program run: where it stopped, operator new results, writes made
    made,         \* per reducer view: how it was constructed and from which view
    ra,           \* the reducer object whose get_value() is read
    resident,     \* per thread: it occupies an execution context of the lock's nodelet
    obs,          \* observer of one round of the lock: a snapshot and what happened since
    llock,        \* per nodelet: the thread that holds its local lock, 0 when free
    glock,        \* the thread that holds the global lock, 0 when free
    room,         \* per nodelet: its free list can satisfy an allocation
    apc           \* per thread: where it is in the alloc protocol, on which nodelet

\* ---------------------------------------------------------------- bounds
MaxNodelets == 4      \* largest NODELETS() explored
NumThreads == 4       \* threads contending on one cas_mutex
MaxContexts == 2      \* execution contexts per nodelet
MaxRivals == 3        \* threads that lock and unlock again and again
MaxGrain == 3         \* largest Grain explored
MaxChildren == 3      \* copy-constructed reducer views
MaxAdds == 3          \* += calls per reducer view
MaxSize == 2          \* largest array size explored
MaxAllocs == 3        \* buffer allocations per run

Nodelets == 0 .. (nodelets - 1)
Threads == 1 .. NumThreads

mutexVars == <<lock_, mpc>>
walkVars == <<wpc, policy, grain, tasks, started, completed, hints>>
reduceVars == <<monoid, views, retried>>
replVars == <<rv>>
shallowVars == <<sh>>
deepVars == <<dp>>
arrayVars == <<akind, arr, bufs, run>>
kindVars == <<made>>
accVars == <<ra>>
slotVars == <<resident, obs>>
allocVars == <<llock, glock, room, apc>>
vars == <<nodelets, loc, mutexVars, walkVars, reduceVars, replVars, shallowVars,
          deepVars, arrayVars, kindVars, accVars, slotVars, allocVars>>

\* What the actions of one component leave alone.
mutexOthers ==
    <<nodelets, loc, walkVars, reduceVars, replVars, shallowVars, deepVars, arrayVars,
      kindVars, accVars, slotVars, allocVars>>
walkOthers ==
    <<nodelets, loc, mutexVars, reduceVars, replVars, shallowVars, deepVars, arrayVars,
      kindVars, accVars, slotVars, allocVars>>
reduceOthers ==
    <<nodelets, loc, mutexVars, walkVars, replVars, shallowVars, deepVars, arrayVars,
      kindVars, accVars, slotVars, allocVars>>
replOthers ==
    <<nodelets, mutexVars, walkVars, reduceVars, shallowVars, deepVars, arrayVars,
      kindVars, accVars, slotVars, allocVars>>
shallowOthers ==
    <<nodelets, mutexVars, walkVars, reduceVars, replVars, deepVars, arrayVars,
      kindVars, accVars, slotVars, allocVars>>
deepOthers ==
    <<nodelets, mutexVars, walkVars, reduceVars, replVars, shallowVars, arrayVars,
      kindVars, accVars, slotVars, allocVars>>
arrayOthers ==
    <<nodelets, mutexVars, walkVars, reduceVars, replVars, shallowVars, deepVars,
      kindVars, accVars, slotVars, allocVars>>
kindOthers ==
    <<nodelets, loc, mutexVars, walkVars, replVars, shallowVars, deepVars, arrayVars,
      accVars, slotVars, allocVars>>
accOthers ==
    <<nodelets, mutexVars, walkVars, reduceVars, replVars, shallowVars, deepVars,
      arrayVars, kindVars, slotVars, allocVars>>
slotOthers ==
    <<nodelets, loc, walkVars, reduceVars, replVars, shallowVars, deepVars, arrayVars,
      kindVars, accVars, allocVars>>
allocOthers ==
    <<nodelets, loc, mutexVars, walkVars, reduceVars, replVars, shallowVars, deepVars,
      arrayVars, kindVars, accVars, slotVars>>

\* Idle values: what a component's variables hold in the specifications of
\* the other components.
MutexIdle ==
    /\ lock_ = 0
    /\ mpc = [t \in Threads |-> "idle"]

WalkIdle ==
    /\ wpc = "idle"
    /\ policy = "none"
    /\ grain = 0
    /\ tasks = <<>>
    /\ started = <<>>
    /\ completed = <<>>
    /\ hints = 0

ReduceIdle ==
    /\ monoid = "none"
    /\ views = <<>>
    /\ retried = FALSE

ReplIdle == rv = <<>>

ShallowIdle == sh = <<>>

DeepIdle == dp = <<>>

KindIdle == made = <<>>

AccIdle == ra = <<>>

SlotIdle == resident = <<>> /\ obs = <<>>

AllocIdle == llock = <<>> /\ glock = 0 /\ room = <<>> /\ apc = <<>>

ArrayIdle ==
    /\ akind = "none"
    /\ arr = <<>>
    /\ bufs = <<>>
    /\ run = <<>>

\* The task that uses the replicated objects migrates to nodelet n; from
\* then on NODE_ID() is n and a replicated address denotes the copy on n.
Migrate(n) ==
    /\ loc # n
    /\ loc' = n
    /\ UNCHANGED <<nodelets, mutexVars, walkVars, reduceVars, replVars, shallowVars,
                   deepVars, arrayVars, kindVars, accVars, slotVars, allocVars>>

\* ======================================================================
\* cas_mutex  (src/cas_mutex.h)
\* ======================================================================

\* cas_mutex() : lock_(0) {}
MutexInit ==
    /\ lock_ = 0
    /\ mpc = [t \in Threads |-> "idle"]

\* A thread calls lock(): it enters the do-loop at the spin read.
LockCallStep(t) ==
    /\ mpc[t] = "idle"
    /\ mpc' = [mpc EXCEPT ![t] = "spin"]
    /\ UNCHANGED lock_

LockCall(t) == LockCallStep(t) /\ UNCHANGED mutexOthers

\* Faulty variant of SpinReadStep: the compare-and-swap is attempted without
\* looking at the word first.
SpinReadBlind(t) ==
    /\ mpc[t] = "spin"
    /\ mpc' = [mpc EXCEPT ![t] = "cas"]
    /\ UNCHANGED lock_

\* while (lock_ != 0) { RESCHEDULE(); }  -- one read of the lock word.
SpinReadStep(t) ==
    /\ mpc[t] = "spin"
    /\ mpc' = [mpc EXCEPT ![t] = IF lock_ # 0 THEN "spin" ELSE "cas"]
    /\ UNCHANGED lock_

SpinRead(t) == SpinReadStep(t) /\ UNCHANGED mutexOthers

\* Faulty variant of TryCasStep: the compare-and-swap gives way to a waiting
\* thread of lower number -- it stores nothing while one is inside lock().
TryCasGivingWay(t) ==
    /\ mpc[t] = "cas"
    /\ LET free == lock_ = 0 /\ \A u \in Threads : u < t => mpc[u] \notin {"spin", "cas"}
       IN  /\ lock_' = IF free THEN 1 ELSE lock_
           /\ mpc' = [mpc EXCEPT ![t] = IF free THEN "held" ELSE "spin"]

\* } while (0 != emu::atomic_cas(&lock_, 0L, 1L));
\* The CAS stores 1 only when the word is 0 and returns the old word; a
\* non-zero return sends the thread back to the spin read.
TryCasStep(t) ==
    /\ mpc[t] = "cas"
    /\ lock_' = IF lock_ = 0 THEN 1 ELSE lock_
    /\ mpc' = [mpc EXCEPT ![t] = IF lock_ = 0 THEN "held" ELSE "spin"]

\* Faulty variant of TryCas: the loop exits whatever the compare-and-swap returns.
TryCasIgnoreResult(t) ==
    /\ mpc[t] = "cas"
    /\ lock_' = 1
    /\ mpc' = [mpc EXCEPT ![t] = "held"]
    /\ UNCHANGED mutexOthers

TryCas(t) == TryCasStep(t) /\ UNCHANGED mutexOthers

\* void unlock() { lock_ = 0; }  -- called by the thread that holds the lock.
UnlockStep(t) ==
    /\ mpc[t] = "held"
    /\ lock_' = 0
    /\ mpc' = [mpc EXCEPT ![t] = "idle"]

Unlock(t) == UnlockStep(t) /\ UNCHANGED mutexOthers

MutexNext ==
    \/ \E t \in Threads : LockCall(t)
    \/ \E t \in Threads : SpinRead(t)
    \/ \E t \in Threads : TryCas(t)
    \/ \E t \in Threads : Unlock(t)

SpecMutexInit ==
    /\ nodelets = 1 /\ loc = 0
    /\ MutexInit /\ WalkIdle /\ ReduceIdle /\ ReplIdle /\ ShallowIdle /\ DeepIdle /\ ArrayIdle
    /\ KindIdle /\ AccIdle /\ SlotIdle /\ AllocIdle

SpecMutex == SpecMutexInit /\ [][MutexNext]_vars

\* Threads between a returned lock() and the matching unlock().
Holders == {t \in Threads : mpc[t] = "held"}

\* C1: mutual exclusion -- under every interleaving of lock() and unlock()
\* calls, at most one thread is between a returned lock() and its unlock().
MutualExclusion == Cardinality(Holders) <= 1

\* C1 witness: one thread holds the lock while another has read the word,
\* found it free earlier and is about to attempt its compare-and-swap.
MutexContended ==
    \E t, u \in Threads : t # u /\ mpc[t] = "held" /\ mpc[u] = "cas"

\* ---------------------------------------------------------------- test-and-test-and-set

\* The step of thread t, whichever it is.
Moves(t) == LockCall(t) \/ SpinRead(t) \/ TryCas(t) \/ Unlock(t)

\* What one step of thread t may do, by where t is in lock():
\*  - t reaches the compare-and-swap only from the read loop, by a read that
\*    found the word 0, and the read stores nothing;
\*  - a read that finds the word non-zero leaves t in the read loop and the
\*    word as it is;
\*  - a compare-and-swap on a non-zero word stores nothing and sends t back
\*    to the read loop; on a zero word it stores 1 and t holds the lock;
\*  - unlock() stores 0.
StepIsTestAndTestAndSet(t) ==
    /\ (mpc[t] # "cas" /\ mpc'[t] = "cas")
            => (mpc[t] = "spin" /\ lock_ = 0 /\ lock_' = lock_)
    /\ (SpinRead(t) /\ lock_ # 0) => (mpc'[t] = "spin" /\ lock_' = lock_)
    /\ (TryCas(t) /\ lock_ # 0) => (mpc'[t] = "spin" /\ lock_' = lock_)
    /\ (TryCas(t) /\ lock_ = 0) => (mpc'[t] = "held" /\ lock_' = 1)
    /\ Unlock(t) => lock_' = 0
    /\ lock_' # lock_ => (TryCas(t) \/ Unlock(t))

\* C30: lock() is test-and-test-and-set -- the compare-and-swap 0 -> 1 is
\* attempted only right after a read of the word that returned 0; a read of a
\* non-zero word is followed by another read and by no compare-and-swap; a
\* compare-and-swap that returns non-zero changes nothing and leads back to
\* the read loop.  The word is always 0 or 1, it is 1 exactly while some
\* thread holds the lock, and unlock() stores 0.
TestAndTestAndSet ==
    /\ [](lock_ \in {0, 1} /\ (lock_ = 1 <=> Holders # {}))
    /\ [][\A t \in Threads : Moves(t) => StepIsTestAndTestAndSet(t)]_vars

\* C30 witness: the lock is held, one thread is in the read loop finding the
\* word non-zero, and another, which read 0 before the holder's
\* compare-and-swap, is about to have its own compare-and-swap return 1.
LateCasWhileSpinning ==
    \E t, u, w \in Threads :
        /\ lock_ = 1 /\ mpc[t] = "held" /\ mpc[u] = "cas" /\ mpc[w] = "spin"

\* ---------------------------------------------------------------- execution contexts
\* "A thread must not give up its execution slot (via migration or system
\* call) while holding the lock", "the number of threads contending on a
\* single lock must not exceed the number of execution contexts per nodelet
\* ... Otherwise the threads spinning on the lock may block other threads
\* from migrating in."  A thread runs lock() and unlock() only while it
\* occupies one of the MaxContexts execution contexts of the lock's nodelet.

\* The threads that occupy an execution context of the lock's nodelet.
Residents == {t \in Threads : resident[t]}

\* No thread is on the nodelet yet; the lock is free.
SlotInit ==
    /\ MutexInit
    /\ resident = [t \in Threads |-> FALSE]
    /\ obs = <<>>

\* Faulty variant of MigrateIn: a thread arrives although every execution
\* context is taken.
MigrateInAnyway(t) ==
    /\ ~resident[t]
    /\ resident' = [resident EXCEPT ![t] = TRUE]
    /\ UNCHANGED <<mutexVars, obs>>
    /\ UNCHANGED slotOthers

\* A thread migrates in: it needs a free execution context.
MigrateIn(t) ==
    /\ ~resident[t]
    /\ Cardinality(Residents) < MaxContexts
    /\ resident' = [resident EXCEPT ![t] = TRUE]
    /\ UNCHANGED <<mutexVars, obs>>
    /\ UNCHANGED slotOthers

\* A thread gives up its execution slot (migration or system call).  lock()
\* itself never does: RESCHEDULE() yields the processor, not the slot.
GiveUpSlot(t) ==
    /\ resident[t]
    /\ mpc[t] \in {"idle", "held"}
    /\ resident' = [resident EXCEPT ![t] = FALSE]
    /\ UNCHANGED <<mutexVars, obs>>
    /\ UNCHANGED slotOthers

\* A step of lock() or unlock() is taken by a thread on the lock's nodelet.
OnSlot(t) == resident[t] /\ UNCHANGED slotVars /\ UNCHANGED slotOthers

SlotLockCall(t) == OnSlot(t) /\ LockCallStep(t)
SlotSpinRead(t) == OnSlot(t) /\ SpinReadStep(t)
SlotTryCas(t) == OnSlot(t) /\ TryCasStep(t)
SlotUnlock(t) == OnSlot(t) /\ UnlockStep(t)

SlotNext ==
    \/ \E t \in Threads : MigrateIn(t)
    \/ \E t \in Threads : GiveUpSlot(t)
    \/ \E t \in Threads : SlotLockCall(t)
    \/ \E t \in Threads : SlotSpinRead(t)
    \/ \E t \in Threads : SlotTryCas(t)
    \/ \E t \in Threads : SlotUnlock(t)

SpecMutexSlotsInit ==
    /\ nodelets = 1 /\ loc = 0
    /\ SlotInit /\ WalkIdle /\ ReduceIdle /\ ReplIdle /\ ShallowIdle /\ DeepIdle /\ ArrayIdle
    /\ KindIdle /\ AccIdle /\ AllocIdle

SpecMutexSlots == SpecMutexSlotsInit /\ [][SlotNext]_vars

\* The threads inside lock() on the lock's nodelet.
Spinners == {t \in Residents : mpc[t] \in {"spin", "cas"}}

\* The lock is held and threads inside lock() occupy every execution context.
SpinnersFillEverySlot == Holders # {} /\ Cardinality(Spinners) = MaxContexts

\* C28: liveness hazard -- once the lock is held and the threads spinning on
\* it occupy every execution context of the nodelet, the holder is a thread
\* that gave up its slot, it never gets back in to run unlock(), and no
\* thread ever acquires the lock again: the situation lasts for ever.
SpinnersShutOutHolder ==
    /\ [](SpinnersFillEverySlot => (lock_ = 1 /\ \A h \in Holders : ~resident[h]))
    /\ [][SpinnersFillEverySlot =>
             /\ SpinnersFillEverySlot'
             /\ lock_' = 1
             /\ \A t \in Threads : mpc'[t] = "held" => mpc[t] = "held"]_vars

\* C28 witness: a thread took the lock, gave up its execution slot, and by
\* now every slot is occupied by a thread spinning on the lock.
HolderLeftSlotsFull ==
    /\ SpinnersFillEverySlot
    /\ \E h \in Holders : ~resident[h]
    /\ \A t \in Residents : mpc[t] = "spin"

\* ---------------------------------------------------------------- operating conditions
\* The lock used as the WARNING asks: a thread gives up its execution slot
\* only while it is outside lock() and does not hold the lock.

\* Faulty variant of LeaveIdle: a holder gives up its slot too.
LeaveAnytime(t) == GiveUpSlot(t)

LeaveIdle(t) == mpc[t] = "idle" /\ GiveUpSlot(t)

OperatingNext ==
    \/ \E t \in Threads : MigrateIn(t)
    \/ \E t \in Threads : LeaveIdle(t)
    \/ \E t \in Threads : SlotLockCall(t)
    \/ \E t \in Threads : SlotSpinRead(t)
    \/ \E t \in Threads : SlotTryCas(t)
    \/ \E t \in Threads : SlotUnlock(t)

\* Fair scheduling: a thread that can take a step of lock() or unlock()
\* eventually takes one; every holder eventually calls unlock().
FairSpecMutexOperating ==
    /\ SpecMutexSlotsInit
    /\ [][OperatingNext]_vars
    /\ \A t \in Threads : WF_vars(SlotSpinRead(t))
    /\ \A t \in Threads : WF_vars(SlotTryCas(t))
    /\ \A t \in Threads : WF_vars(SlotUnlock(t))

\* C31: progress under the operating conditions -- with holders that keep
\* their execution slot and eventually call unlock(), and fewer spinning
\* threads than execution contexts, whenever some thread is inside lock()
\* some thread eventually acquires the lock: a held lock is eventually free
\* again with the waiting threads still inside lock(), and a free lock with
\* a thread inside lock() is eventually held.
LockProgress ==
    /\ [](Holders # {} => (Holders \subseteq Residents
                            /\ Cardinality(Spinners) < MaxContexts))
    /\ (Spinners # {} /\ lock_ = 1) ~> (Spinners # {} /\ lock_ = 0)
    /\ (Spinners # {} /\ lock_ = 0) ~> (Holders # {})

\* C31 witness: a thread holds the lock on its execution slot while threads
\* spinning on the lock occupy every other slot.
HolderAmongSpinners ==
    /\ Holders # {} /\ Holders \subseteq Residents
    /\ Cardinality(Spinners) = MaxContexts - 1
    /\ \A t \in Spinners : mpc[t] = "spin"

\* ---------------------------------------------------------------- rounds of the lock
\* Threads that lock and unlock again and again, watched from some state on:
\* which of them took a step since, and which of them acquired the lock.

\* The threads that keep calling lock() and unlock().
Rivals == {t \in Threads : t <= MaxRivals}

NotWatching ==
    [taken |-> FALSE, word |-> 0, pcs |-> [t \in Threads |-> "idle"],
     stepped |-> {}, won |-> {}]

RoundInit ==
    /\ MutexInit
    /\ resident = <<>>
    /\ obs = NotWatching

\* The watch begins: the lock word and every thread's position are noted.
Watch ==
    /\ ~obs.taken
    /\ obs' = [taken |-> TRUE, word |-> lock_, pcs |-> mpc, stepped |-> {}, won |-> {}]
    /\ UNCHANGED <<mutexVars, resident>>
    /\ UNCHANGED slotOthers

\* Thread t takes a step while watched; it wins when lock() returns to it.
Watched(t) ==
    /\ obs' = IF obs.taken
              THEN [obs EXCEPT !.stepped = @ \cup {t},
                               !.won = IF mpc[t] # "held" /\ mpc'[t] = "held"
                                       THEN @ \cup {t} ELSE @]
              ELSE obs
    /\ UNCHANGED resident
    /\ UNCHANGED slotOthers

RoundLockCall(t) == LockCallStep(t) /\ Watched(t)
RoundSpinRead(t) == SpinReadStep(t) /\ Watched(t)
RoundTryCas(t) == TryCasStep(t) /\ Watched(t)
RoundUnlock(t) == UnlockStep(t) /\ Watched(t)

RoundNext ==
    \/ Watch
    \/ \E t \in Rivals : RoundLockCall(t)
    \/ \E t \in Rivals : RoundSpinRead(t)
    \/ \E t \in Rivals : RoundTryCas(t)
    \/ \E t \in Rivals : RoundUnlock(t)

SpecMutexRoundsInit ==
    /\ nodelets = 1 /\ loc = 0
    /\ RoundInit /\ WalkIdle /\ ReduceIdle /\ ReplIdle /\ ShallowIdle /\ DeepIdle /\ ArrayIdle
    /\ KindIdle /\ AccIdle /\ AllocIdle

SpecMutexRounds == SpecMutexRoundsInit /\ [][RoundNext]_vars

\* The threads inside lock().
Waiting == {t \in Rivals : mpc[t] \in {"spin", "cas"}}

\* C29: no fairness guarantee -- who acquires the lock is decided by the
\* compare-and-swap alone: the compare-and-swap of any thread on a free word
\* succeeds, whichever other threads are inside lock() and however often
\* they have been passed over since the watch began; nothing orders the
\* waiting threads (no bounded waiting, no FIFO order).
CasAloneDecides ==
    [][\A t \in Rivals :
          (RoundTryCas(t) /\ lock_ = 0) => (mpc'[t] = "held" /\ lock_' = 1)]_vars

\* C29 witness: a round that can repeat for ever -- the lock and every thread
\* are back where they were when the watch began, every thread took a step in
\* between, every thread but one acquired the lock in between, and that one
\* was inside lock() at the start of the watch and still is.
StarvingRoundRepeats ==
    /\ obs.taken /\ lock_ = obs.word /\ mpc = obs.pcs
    /\ obs.stepped = Rivals
    /\ \E t \in Waiting : obs.won = Rivals \ {t}

\* ======================================================================
\* repl_for_each  (src/replicated.h)
\* ======================================================================

\* Before the call: no task of the walk exists, no copy has been touched.
WalkInit ==
    /\ wpc = "idle"
    /\ policy = "none"
    /\ grain = 0
    /\ tasks = <<>>
    /\ started = [p \in Nodelets |-> 0]
    /\ completed = [p \in Nodelets |-> 0]
    /\ hints = 0

TaskIds == 1 .. Len(tasks)

\* A task of the walk: the frame of one detail::repl_for_each call.
\*   begin, end : nlet_begin, nlet_end
\*   nlet       : loop variable of the sequential loop
\*   cur        : nodelet whose copy the running worker was handed
\*   busy       : the worker is executing
\*   visited    : nodelets whose copy the task has handed to the worker,
\*                in invocation order
\*   parent     : task that spawned this one (0: called, not spawned)
\*   node       : nodelet the task starts on
NewTask(b, e, pc0, par, nd) ==
    [begin |-> b, end |-> e, nlet |-> b, cur |-> b, busy |-> FALSE,
     visited |-> <<>>, pc |-> pc0, parent |-> par, node |-> nd]

\* repl_for_each(policy, repl_ref, worker) / repl_for_each(repl_ref, worker):
\* detail::repl_for_each(policy, 0, NODELETS(), repl_ref, worker), called
\* (not spawned) by a task located on nodelet nd.
WalkCall(pol, g, nd) ==
    /\ wpc = "idle"
    /\ wpc' = "running"
    /\ policy' = pol
    /\ grain' = IF pol = "par" THEN g ELSE 0
    /\ tasks' = <<NewTask(0, nodelets, IF pol = "par" THEN "loop" ELSE "serial",
                          0, nd)>>
    /\ UNCHANGED <<started, completed, hints>>
    /\ UNCHANGED walkOthers

\* Faulty variant of Midpoint: the range is divided with the quotient rounded up.
MidpointCeil(b, e) == b + ((e - b + 1) \div 2)

\* long nlet_mid = nlet_begin + nlet_count / 2;
Midpoint(b, e) == b + ((e - b) \div 2)

\* Faulty variant of UpperBegin: the spawned range starts one past the midpoint.
UpperBeginSkip(mid) == mid + 1

\* First nodelet of the range handed to the spawned call (nlet_mid).
UpperBegin(mid) == mid

\* Faulty variant of ParSplit: a range is split as long as it has more than
\* one nodelet, whatever the grain.
ParSplitBelowGrain(t) ==
    /\ tasks[t].pc = "loop"
    /\ tasks[t].end - tasks[t].begin > 1
    /\ LET mid == Midpoint(tasks[t].begin, tasks[t].end)
       IN /\ hints' = hints + 1
          /\ tasks' = Append([tasks EXCEPT ![t].end = mid],
                             NewTask(UpperBegin(mid), tasks[t].end, "loop", t, mid))
    /\ UNCHANGED <<wpc, policy, grain, started, completed>>
    /\ UNCHANGED walkOthers

\* Loop body for nlet_count > grain: migrate hint to the midpoint copy,
\* spawn the upper half, keep the lower half.
ParSplit(t) ==
    /\ tasks[t].pc = "loop"
    /\ tasks[t].end - tasks[t].begin > grain
    /\ LET mid == Midpoint(tasks[t].begin, tasks[t].end)
       IN /\ hints' = hints + 1
          /\ tasks' = Append([tasks EXCEPT ![t].end = mid],
                             NewTask(UpperBegin(mid), tasks[t].end, "loop", t, mid))
    /\ UNCHANGED <<wpc, policy, grain, started, completed>>
    /\ UNCHANGED walkOthers

\* if (nlet_count <= grain) { break; }  then the call of the seq overload.
ParBreak(t) ==
    /\ tasks[t].pc = "loop"
    /\ tasks[t].end - tasks[t].begin <= grain
    /\ tasks' = [tasks EXCEPT ![t].pc = "serial", ![t].nlet = tasks[t].begin]
    /\ UNCHANGED <<wpc, policy, grain, started, completed, hints>>
    /\ UNCHANGED walkOthers

\* Faulty variant of SeqBegin: the range is walked from its last nodelet down.
SeqBeginReverse(t) ==
    /\ tasks[t].pc = "serial"
    /\ ~tasks[t].busy
    /\ tasks[t].nlet < tasks[t].end
    /\ LET p == tasks[t].begin + tasks[t].end - 1 - tasks[t].nlet
       IN /\ tasks' = [tasks EXCEPT ![t].busy = TRUE, ![t].cur = p,
                                     ![t].visited = Append(@, p)]
          /\ started' = [started EXCEPT ![p] = @ + 1]
    /\ UNCHANGED <<wpc, policy, grain, completed, hints>>
    /\ UNCHANGED walkOthers

\* nlet < nlet_end: worker(*get_nth(&repl_ref, nlet)) is entered.
SeqBegin(t) ==
    /\ tasks[t].pc = "serial"
    /\ ~tasks[t].busy
    /\ tasks[t].nlet < tasks[t].end
    /\ LET p == tasks[t].nlet
       IN /\ tasks' = [tasks EXCEPT ![t].busy = TRUE, ![t].cur = p,
                                     ![t].visited = Append(@, p)]
          /\ started' = [started EXCEPT ![p] = @ + 1]
    /\ UNCHANGED <<wpc, policy, grain, completed, hints>>
    /\ UNCHANGED walkOthers

\* The worker returns; ++nlet.
SeqEnd(t) ==
    /\ tasks[t].pc = "serial"
    /\ tasks[t].busy
    /\ tasks' = [tasks EXCEPT ![t].busy = FALSE, ![t].nlet = @ + 1]
    /\ completed' = [completed EXCEPT ![tasks[t].cur] = @ + 1]
    /\ UNCHANGED <<wpc, policy, grain, started, hints>>
    /\ UNCHANGED walkOthers

\* nlet >= nlet_end: the sequential overload returns.  In the parallel
\* overload the frame then reaches its end, where the spawned calls are
\* awaited; the sequential overload spawned nothing and returns at once.
SeqExit(t) ==
    /\ tasks[t].pc = "serial"
    /\ ~tasks[t].busy
    /\ tasks[t].nlet >= tasks[t].end
    /\ tasks' = [tasks EXCEPT ![t].pc = IF policy = "par" THEN "sync" ELSE "done"]
    /\ UNCHANGED <<wpc, policy, grain, started, completed, hints>>
    /\ UNCHANGED walkOthers

Children(t) == {c \in TaskIds : tasks[c].parent = t}

\* Faulty variant of Join: the frame returns without awaiting its spawned calls.
JoinNoWait(t) ==
    /\ tasks[t].pc = "sync"
    /\ tasks' = [tasks EXCEPT ![t].pc = "done"]
    /\ UNCHANGED <<wpc, policy, grain, started, completed, hints>>
    /\ UNCHANGED walkOthers

\* End of a frame that used cilk_spawn: it returns once every call it
\* spawned has returned.
Join(t) ==
    /\ tasks[t].pc = "sync"
    /\ \A c \in Children(t) : tasks[c].pc = "done"
    /\ tasks' = [tasks EXCEPT ![t].pc = "done"]
    /\ UNCHANGED <<wpc, policy, grain, started, completed, hints>>
    /\ UNCHANGED walkOthers

\* detail::repl_for_each has returned to repl_for_each, which returns.
WalkReturn ==
    /\ wpc = "running"
    /\ tasks[1].pc = "done"
    /\ wpc' = "returned"
    /\ UNCHANGED <<policy, grain, tasks, started, completed, hints>>
    /\ UNCHANGED walkOthers

WalkNext ==
    \/ \E pol \in {"seq", "par"}, g \in 1 .. MaxGrain, nd \in Nodelets :
          WalkCall(pol, g, nd)
    \/ \E t \in TaskIds : ParSplit(t)
    \/ \E t \in TaskIds : ParBreak(t)
    \/ \E t \in TaskIds : SeqBegin(t)
    \/ \E t \in TaskIds : SeqEnd(t)
    \/ \E t \in TaskIds : SeqExit(t)
    \/ \E t \in TaskIds : Join(t)
    \/ WalkReturn

SpecWalkInit ==
    /\ nodelets \in 1 .. MaxNodelets /\ loc = 0
    /\ WalkInit /\ MutexIdle /\ ReduceIdle /\ ReplIdle /\ ShallowIdle /\ DeepIdle /\ ArrayIdle
    /\ KindIdle /\ AccIdle /\ SlotIdle /\ AllocIdle

SpecWalk == SpecWalkInit /\ [][WalkNext]_vars

\* The scheduler keeps running runnable tasks: a spawned call runs to
\* completion and a caller of repl_for_each makes the call.
FairSpecWalk == SpecWalk /\ WF_vars(WalkNext)

\* Tasks whose range is final: they have left the splitting loop.
Leaves == {t \in TaskIds : tasks[t].pc # "loop"}

LeafRange(t) == tasks[t].begin .. (tasks[t].end - 1)

\* No copy is visited twice, the leaf ranges are non-empty and pairwise
\* disjoint, and once the call has returned every copy was visited once
\* and the leaf ranges cover [0, NODELETS()).
ExactlyOnceInv ==
    /\ wpc # "idle" =>
          /\ \A p \in Nodelets : started[p] <= 1 /\ completed[p] <= started[p]
          /\ \A t \in Leaves : LeafRange(t) # {} /\ LeafRange(t) \subseteq Nodelets
          /\ \A t, u \in Leaves : t # u => LeafRange(t) \cap LeafRange(u) = {}
    /\ wpc = "returned" =>
          /\ \A p \in Nodelets : started[p] = 1 /\ completed[p] = 1
          /\ UNION {LeafRange(t) : t \in TaskIds} = Nodelets

\* C2: for every NODELETS() >= 1, under seq and under par with every
\* Grain >= 1, repl_for_each terminates having invoked the worker exactly
\* once on each nodelet's copy (disjoint, non-empty, covering leaf ranges).
WalkExactlyOnce ==
    /\ []ExactlyOnceInv
    /\ (wpc = "running") ~> (wpc = "returned")

\* C2 witness: a parallel walk with at least three leaf ranges has returned.
WalkReturnedParallel ==
    /\ wpc = "returned"
    /\ policy = "par"
    /\ Len(tasks) >= 3
    /\ \A p \in Nodelets : completed[p] = 1

\* C3: strict fork-join -- a frame returns only after every call it
\* spawned has returned, so when the top-level call has returned every
\* task of the walk is done and all NODELETS() invocations have completed.
StrictForkJoin ==
    /\ \A t \in TaskIds : tasks[t].pc = "done" =>
          \A c \in Children(t) : tasks[c].pc = "done"
    /\ (wpc = "running" /\ tasks[1].pc = "done") \/ wpc = "returned" =>
          /\ \A t \in TaskIds : tasks[t].pc = "done" /\ ~tasks[t].busy
          /\ \A p \in Nodelets : completed[p] = 1

\* C3 witness: a parent waits at its join point while a task it spawned is
\* still inside the worker.
ParentWaitsForChild ==
    \E t, c \in TaskIds :
        /\ tasks[c].parent = t
        /\ tasks[t].pc = "sync"
        /\ tasks[c].busy

\* C4: under seq the worker is invoked on nodelets 0, 1, ... in strictly
\* increasing order, each invocation completing before the next begins,
\* all in the calling task, with no spawn and no migration hint.
SequentialInOrder ==
    policy = "seq" =>
        /\ Len(tasks) = 1
        /\ hints = 0
        /\ \A i \in 1 .. Len(tasks[1].visited) : tasks[1].visited[i] = i - 1
        /\ \A i \in 1 .. Len(tasks[1].visited) - 1 : completed[i - 1] = 1
        /\ \A p \in Nodelets : started[p] = 1 <=> p < Len(tasks[1].visited)

\* C4 witness: the sequential walk is inside its third invocation.
SequentialThirdVisit ==
    /\ policy = "seq"
    /\ Len(tasks[1].visited) = 3
    /\ tasks[1].busy

\* ---------------------------------------------------------------- the split step

\* The task the latest cilk_spawn created.
Spawned == tasks'[Len(tasks')]

\* C32: split step of the parallel walk -- a range [begin, end) with more
\* than Grain nodelets is never run as it is; it is split at
\* mid = begin + floor((end - begin) / 2): one migration hint is issued, one
\* task is spawned for [mid, end) and starts on nodelet mid, and the spawning
\* task keeps [begin, mid) and stays on its nodelet.
SplitAtMidpoint ==
    [][\A t \in TaskIds :
          /\ ParBreak(t) => tasks[t].end - tasks[t].begin <= grain
          /\ ParSplit(t) =>
                LET b == tasks[t].begin
                    e == tasks[t].end
                    mid == b + ((e - b) \div 2)
                IN  /\ e - b > grain
                    /\ hints' = hints + 1
                    /\ Len(tasks') = Len(tasks) + 1
                    /\ Spawned.begin = mid /\ Spawned.end = e
                    /\ Spawned.node = mid /\ Spawned.parent = t
                    /\ Spawned.pc = "loop" /\ Spawned.visited = <<>>
                    /\ tasks'[t].begin = b /\ tasks'[t].end = mid
                    /\ tasks'[t].node = tasks[t].node
                    /\ tasks'[t].pc = "loop"
                    /\ \A u \in TaskIds \ {t} : tasks'[u] = tasks[u]]_vars

\* C32 witness: a task that was itself spawned has split its range: the task
\* it spawned starts on the midpoint nodelet, where the spawning task's range
\* now ends.
SpawnedTaskHasSplit ==
    \E c, d \in TaskIds :
        /\ tasks[c].parent # 0 /\ tasks[d].parent = c
        /\ tasks[d].node = tasks[d].begin /\ tasks[c].end = tasks[d].begin
        /\ tasks[c].node = tasks[c].begin

\* ---------------------------------------------------------------- fan-out

\* ceil(g / 2)
CeilHalf(g) == (g + 1) \div 2

RangeSize(t) == tasks[t].end - tasks[t].begin

\* Tasks created by cilk_spawn.
SpawnedTasks == {t \in TaskIds : tasks[t].parent # 0}

\* C33: the grain bounds the fan-out of the parallel walk -- every range run
\* sequentially has at most Grain nodelets and, when NODELETS() > Grain, at
\* least ceil(Grain / 2); every task but the called one was spawned and ends
\* as one leaf range, so the spawned tasks number the leaf ranges minus one,
\* which is at most NODELETS() / ceil(Grain / 2) - 1 when NODELETS() > Grain
\* and zero when NODELETS() <= Grain.
GrainBoundsFanOut ==
    policy = "par" =>
        /\ \A t \in Leaves : RangeSize(t) <= grain
        /\ Cardinality(SpawnedTasks) = Len(tasks) - 1
        /\ hints = Cardinality(SpawnedTasks)
        /\ wpc = "returned" => Cardinality(SpawnedTasks) = Cardinality(Leaves) - 1
        /\ nodelets > grain =>
              /\ \A t \in TaskIds : RangeSize(t) >= CeilHalf(grain)
              /\ (Cardinality(SpawnedTasks) + 1) * CeilHalf(grain) <= nodelets
        /\ nodelets <= grain => Cardinality(SpawnedTasks) = 0

\* C33 witness: a parallel walk over more nodelets than its grain of two or
\* more has returned with a leaf range of ceil(Grain / 2) nodelets, smaller
\* than the grain, and with as many spawned tasks as the bound allows.
FanOutAtBound ==
    /\ wpc = "returned" /\ policy = "par"
    /\ grain >= 2 /\ nodelets > grain
    /\ \E t \in Leaves : RangeSize(t) = CeilHalf(grain) /\ RangeSize(t) < grain
    /\ (Cardinality(SpawnedTasks) + 1) * CeilHalf(grain) = nodelets

\* ======================================================================
\* reducer_base / op_add / reducer_opadd  (src/reducers.h)
\* ======================================================================

ViewIds == 0 .. MaxChildren
ChildIds == 1 .. MaxChildren

\* Values handed to operator+=.
Incs == {10}

\* The null pointer; any other global_sum_ is the id of the view whose
\* local_sum_ it points to.
NULL == -1

\* static T identity() { return 0; }
identity == 0

\* A reducer instance.
\*   st          : "none" (not constructed), "live", "read" / "cas" (inside
\*                 op_add<double>::reduce, called by the destructor), "dead"
\*   local_sum_  : local view of the reduction variable
\*   global_sum_ : pointer to the storage the destructor reduces into
\*   old_value, new_value : locals of op_add<double>::reduce
\*   cnt         : += calls made on the view
\*   added       : sum of the values handed to += (kept after destruction)
\*   folds       : completed Monoid::reduce(global_sum_, local_sum_) calls of
\*                 the destructor (kept after destruction)
NoView ==
    [st |-> "none", local_sum_ |-> 0, global_sum_ |-> NULL, old_value |-> 0,
     new_value |-> 0, cnt |-> 0, added |-> 0, folds |-> 0]

\* reducer_base() : local_sum_(identity()), global_sum_(&local_sum_)
DefaultConstruct(v) ==
    [NoView EXCEPT !.st = "live", !.local_sum_ = identity, !.global_sum_ = v]

ReduceInit ==
    /\ monoid \in {"long", "double"}
    /\ views = [v \in ViewIds |-> IF v = 0 THEN DefaultConstruct(0) ELSE NoView]
    /\ retried = FALSE

\* Faulty variant of CopyView: the implicit copy, which also copies local_sum_.
CopyViewMemberwise(other) ==
    [NoView EXCEPT !.st = "live", !.local_sum_ = other.local_sum_,
                   !.global_sum_ = other.global_sum_]

\* reducer_base(const reducer_base &other)
\*     : local_sum_(identity()), global_sum_(other.global_sum_)
CopyView(other) ==
    [NoView EXCEPT !.st = "live", !.local_sum_ = identity,
                   !.global_sum_ = other.global_sum_]

\* View c is copy-constructed from the live view src.
CopyConstruct(c, src) ==
    /\ views[c].st = "none"
    /\ \A d \in ChildIds : d < c => views[d].st # "none"
    /\ views[src].st = "live"
    /\ views' = [views EXCEPT ![c] = CopyView(views[src])]
    /\ UNCHANGED <<monoid, retried, reduceOthers>>

\* Faulty variant of Add: every update is also applied to the target.
AddThrough(c, rhs) ==
    /\ views[c].st = "live"
    /\ views[c].cnt < MaxAdds
    /\ views' = [views EXCEPT ![c].local_sum_ = @ + rhs,
                               ![c].cnt = @ + 1,
                               ![c].added = @ + rhs,
                               ![0].local_sum_ = @ + rhs]
    /\ UNCHANGED <<monoid, retried, reduceOthers>>

\* void operator+=(T& rhs) { this->local_sum_ += rhs; }
Add(c, rhs) ==
    /\ views[c].st = "live"
    /\ views[c].cnt < MaxAdds
    /\ views' = [views EXCEPT ![c].local_sum_ = @ + rhs,
                               ![c].cnt = @ + 1,
                               ![c].added = @ + rhs]
    /\ UNCHANGED <<monoid, retried, reduceOthers>>

\* Faulty variant of NeedsFold: the comparison with &local_sum_ is left out.
NeedsFoldNonNull(c) == views[c].global_sum_ # NULL

\* if (global_sum_ && global_sum_ != &local_sum_)
NeedsFold(c) == views[c].global_sum_ # NULL /\ views[c].global_sum_ # c

\* The destroyed object: only what was handed to it is remembered.
Gone(view) ==
    [NoView EXCEPT !.st = "dead", !.added = view.added, !.folds = view.folds]

\* The destroyed object after Monoid::reduce(global_sum_, local_sum_) returned.
Folded(view) == [Gone(view) EXCEPT !.folds = @ + 1]

\* ~reducer_base().  No fold: the object is gone.  op_add<T>::reduce is one
\* remote_add into *global_sum_.  op_add<double>::reduce is entered.
Destroy(c) ==
    /\ views[c].st = "live"
    /\ views' =
         IF ~NeedsFold(c) THEN [views EXCEPT ![c] = Gone(@)]
         ELSE IF monoid = "long"
              THEN [views EXCEPT ![c] = Folded(@),
                                 ![views[c].global_sum_].local_sum_ =
                                     @ + views[c].local_sum_]
              ELSE [views EXCEPT ![c].st = "read"]
    /\ UNCHANGED <<monoid, retried, reduceOthers>>

\* old_value = *lhs; new_value = old_value + rhs;
ReduceRead(c) ==
    /\ views[c].st = "read"
    /\ LET old == views[views[c].global_sum_].local_sum_
       IN views' = [views EXCEPT ![c].st = "cas",
                                 ![c].old_value = old,
                                 ![c].new_value = old + views[c].local_sum_]
    /\ UNCHANGED <<monoid, retried, reduceOthers>>

\* Faulty variant of ReduceCas: the loop is left whatever atomic_cas returns.
ReduceCasNoRetry(c) ==
    /\ views[c].st = "cas"
    /\ LET g == views[c].global_sum_
           ok == views[g].local_sum_ = views[c].old_value
       IN /\ views' =
                   IF ok
                   THEN [views EXCEPT ![c] = Folded(@),
                                      ![g].local_sum_ = views[c].new_value]
                   ELSE [views EXCEPT ![c] = Folded(@)]
          /\ retried' = (retried \/ ~ok)
    /\ UNCHANGED <<monoid, reduceOthers>>

\* } while (old_value != atomic_cas(lhs, old_value, new_value));
\* The CAS stores new_value only when *lhs still equals old_value and
\* returns what it found; a different value restarts the loop.
ReduceCas(c) ==
    /\ views[c].st = "cas"
    /\ LET g == views[c].global_sum_
           ok == views[g].local_sum_ = views[c].old_value
       IN /\ views' =
                   IF ok
                   THEN [views EXCEPT ![c] = Folded(@),
                                      ![g].local_sum_ = views[c].new_value]
                   ELSE [views EXCEPT ![c].st = "read"]
          /\ retried' = (retried \/ ~ok)
    /\ UNCHANGED <<monoid, reduceOthers>>

\* T& get_value() of an instance that is not in replicated storage.
get_value(v) == views[v].local_sum_

ReduceNext ==
    \/ \E c \in ChildIds, src \in ViewIds : CopyConstruct(c, src)
    \/ \E c \in ChildIds, rhs \in Incs : Add(c, rhs)
    \/ \E c \in ChildIds : Destroy(c)
    \/ \E c \in ChildIds : ReduceRead(c)
    \/ \E c \in ChildIds : ReduceCas(c)

SpecReduceInit ==
    /\ nodelets = 1 /\ loc = 0
    /\ ReduceInit /\ MutexIdle /\ WalkIdle /\ ReplIdle /\ ShallowIdle /\ DeepIdle /\ ArrayIdle
    /\ KindIdle /\ AccIdle /\ SlotIdle /\ AllocIdle

SpecReduce == SpecReduceInit /\ [][ReduceNext]_vars

RECURSIVE SumAdded(_)
\* Sum of everything handed to += on the views in S.
SumAdded(S) ==
    IF S = {} THEN 0
    ELSE LET c == CHOOSE x \in S : TRUE
         IN views[c].added + SumAdded(S \ {c})

Born == {c \in ChildIds : views[c].st # "none"}
Dead == {c \in ChildIds : views[c].st = "dead"}

\* C5: once every child view is destroyed the root's get_value() is the sum
\* of all contributions; with N children that each added k exactly m times
\* it is N*m*k.
ReductionTotal ==
    (Born # {} /\ Born = Dead) =>
        /\ get_value(0) = SumAdded(Born)
        /\ \A k \in Incs, m \in 0 .. MaxAdds :
              (\A c \in Born : views[c].added = m * k) =>
                  get_value(0) = Cardinality(Born) * m * k

\* C5 witness: three views that added 10, 20 and 30 in all are destroyed and
\* the root reads 60.
ThreeViewsGiveSixty ==
    /\ Dead = {1, 2, 3}
    /\ views[1].added = 10 /\ views[2].added = 20 /\ views[3].added = 30
    /\ get_value(0) = 60

\* C6: the compare-and-swap retry combine never loses an update -- the
\* target always equals its initial value plus the rhs of exactly the
\* calls that have returned, whatever the interleaving; a failed CAS
\* changes nothing.
CasCombineLosesNothing ==
    monoid = "double" => views[0].local_sum_ = identity + SumAdded(Dead)

\* C6 witness: three combines of non-zero values have returned, one of them
\* after a failed compare-and-swap and a retry.
CasRetriedAndCombined ==
    /\ monoid = "double"
    /\ retried
    /\ Dead = {1, 2, 3}
    /\ \A c \in Dead : views[c].added > 0

\* ------------------------------------------------ construction kinds

\* How each view came to be: "default", "copy" or "shallow" construction,
\* and the view handed to the copy or shallow-copy constructor.
NoOrigin == [how |-> "none", from |-> NULL]

KindInit ==
    made = [v \in ViewIds |->
              IF v = 0 THEN [NoOrigin EXCEPT !.how = "default"] ELSE NoOrigin]

\* Faulty variant of ShallowCopyView: the new view is connected to the
\* target of the view it is made from.
ShallowCopyViewAttached(other) ==
    [NoView EXCEPT !.st = "live", !.local_sum_ = identity,
                   !.global_sum_ = other.global_sum_]

\* reducer_base(const reducer_base &other, emu::shallow_copy)
\*     : local_sum_(identity()), global_sum_(nullptr)
ShallowCopyView(other) ==
    [NoView EXCEPT !.st = "live", !.local_sum_ = identity,
                   !.global_sum_ = NULL]

\* View c is copy-constructed from the live view src; its origin is noted.
CopyConstructFrom(c, src) ==
    /\ views[c].st = "none"
    /\ \A d \in ChildIds : d < c => views[d].st # "none"
    /\ views[src].st = "live"
    /\ views' = [views EXCEPT ![c] = CopyView(views[src])]
    /\ made' = [made EXCEPT ![c] = [how |-> "copy", from |-> src]]
    /\ UNCHANGED <<monoid, retried, kindOthers>>

\* View c is shallow-copy-constructed from the live view src.
ShallowCopyConstructFrom(c, src) ==
    /\ views[c].st = "none"
    /\ \A d \in ChildIds : d < c => views[d].st # "none"
    /\ views[src].st = "live"
    /\ views' = [views EXCEPT ![c] = ShallowCopyView(views[src])]
    /\ made' = [made EXCEPT ![c] = [how |-> "shallow", from |-> src]]
    /\ UNCHANGED <<monoid, retried, kindOthers>>

ReduceKindsNext ==
    \/ \E c \in ChildIds, src \in ViewIds : CopyConstructFrom(c, src)
    \/ \E c \in ChildIds, src \in ViewIds : ShallowCopyConstructFrom(c, src)
    \/ \E c \in ChildIds : Destroy(c)
    \/ \E c \in ChildIds : ReduceRead(c)
    \/ \E c \in ChildIds : ReduceCas(c)

SpecReduceKindsInit ==
    /\ nodelets = 1 /\ loc = 0
    /\ ReduceInit /\ KindInit /\ AccIdle /\ SlotIdle /\ AllocIdle
    /\ MutexIdle /\ WalkIdle /\ ReplIdle /\ ShallowIdle /\ DeepIdle /\ ArrayIdle

SpecReduceKinds == SpecReduceKindsInit /\ [][ReduceKindsNext]_vars

\* The default-constructed root targets its own local storage.
RootTargetsItself == views[0].st = "live" /\ views[0].global_sum_ = 0

Increment(c) ==
    /\ views[c].st = "live"
    /\ views[c].cnt < MaxAdds
    /\ views' = [views EXCEPT ![c].local_sum_ = @ + 1,
                               ![c].cnt = @ + 1,
                               ![c].added = @ + 1]
    /\ UNCHANGED <<monoid, retried, reduceOthers>>

\* View c is shallow-copy-constructed from the live view src.
ShallowCopyConstruct(c, src) ==
    /\ views[c].st = "none"
    /\ \A d \in ChildIds : d < c => views[d].st # "none"
    /\ views[src].st = "live"
    /\ views' = [views EXCEPT ![c] = ShallowCopyView(views[src])]
    /\ UNCHANGED <<monoid, retried, reduceOthers>>

\* The root goes out of scope after every view made in its scope.
DestroyRoot ==
    /\ \A c \in ChildIds : views[c].st \in {"none", "dead"}
    /\ Destroy(0)

\* The view on which ++ is explored beside +=.
Counters == {c \in ChildIds : \A d \in ChildIds : c <= d}

ReduceFoldNext ==
    \/ \E c \in ChildIds, src \in ViewIds : CopyConstruct(c, src)
    \/ \E c \in ChildIds, src \in ViewIds : ShallowCopyConstruct(c, src)
    \/ \E c \in ChildIds, rhs \in Incs : Add(c, rhs)
    \/ \E c \in Counters : Increment(c)
    \/ \E c \in ChildIds : Destroy(c)
    \/ DestroyRoot

\* Folding is by op_add<T>::reduce, one remote_add; the compare-and-swap
\* loop of op_add<double> is explored in SpecReduce.
SpecReduceFoldInit == SpecReduceInit /\ monoid = "long"

SpecReduceFold == SpecReduceFoldInit /\ [][ReduceFoldNext]_vars

\* The view has a target that is not its own storage.
Targeted(v) == views[v].global_sum_ # NULL /\ views[v].global_sum_ # v

\* The step is the end of the destructor of view v.
EndsLife(v) == views[v].st = "live" /\ views'[v].st = "dead"

\* C21: the destructor of a view whose target is non-null and not its own
\* storage completes exactly one combine of its local value into that
\* target and changes nothing else; the destructor of a root or of a view
\* without target completes none and changes no other view; no other step
\* completes a combine, so the combines of an execution are as many as the
\* destroyed views that had such a target, whatever the number of updates.
FoldOncePerTargetedView ==
    /\ [](\A v \in ViewIds : views[v].st # "dead" => views[v].folds = 0)
    /\ [][\A v \in ViewIds :
            /\ EndsLife(v) /\ Targeted(v) =>
                  LET g == views[v].global_sum_
                  IN /\ views'[v].folds = 1
                     /\ views'[g].local_sum_ =
                            views[g].local_sum_ + views[v].local_sum_
                     /\ \A w \in ViewIds \ {v, g} : views'[w] = views[w]
            /\ EndsLife(v) /\ ~Targeted(v) =>
                  /\ views'[v].folds = 0
                  /\ \A w \in ViewIds \ {v} : views'[w] = views[w]
            /\ ~EndsLife(v) => views'[v].folds = views[v].folds]_vars

\* C21 witness: a view with a target was destroyed after three updates and
\* folded once, a view without target was destroyed after updates and
\* folded nothing, and the root was destroyed without a fold.
FoldedOnceAfterThreeUpdates ==
    \E c, d \in ChildIds :
        /\ views[c].st = "dead" /\ views[c].folds = 1 /\ views[c].added >= 21
        /\ views[d].st = "dead" /\ views[d].folds = 0 /\ views[d].added > 0
        /\ views[0].st = "dead" /\ views[0].folds = 0

\* C22: += and ++ change the local accumulator of the view they are applied
\* to and nothing else (not its target, not the root, no other view); copy
\* construction and shallow-copy construction start the new view at
\* identity() and change no other view.
UpdatesTouchOnlyLocal ==
    [][\A c \in ChildIds :
          /\ \A rhs \in Incs :
                Add(c, rhs) =>
                    /\ views'[c].local_sum_ = views[c].local_sum_ + rhs
                    /\ views'[c].global_sum_ = views[c].global_sum_
                    /\ \A w \in ViewIds \ {c} : views'[w] = views[w]
          /\ Increment(c) =>
                /\ views'[c].local_sum_ = views[c].local_sum_ + 1
                /\ views'[c].global_sum_ = views[c].global_sum_
                /\ \A w \in ViewIds \ {c} : views'[w] = views[w]
          /\ \A src \in ViewIds :
                CopyConstruct(c, src) \/ ShallowCopyConstruct(c, src) =>
                    /\ views'[c].local_sum_ = identity
                    /\ \A w \in ViewIds \ {c} : views'[w] = views[w]]_vars

\* C22 witness: a view with the root as target holds 21 after two += and
\* one ++ while the root still holds identity(), and a copy made from that
\* view has started at identity().
UpdatedViewBesideFreshCopy ==
    \E c, d \in ChildIds :
        /\ views[c].st = "live" /\ views[c].global_sum_ = 0
        /\ views[c].local_sum_ = 21 /\ views[c].cnt = 3
        /\ views[d].st = "live" /\ d > c /\ views[d].local_sum_ = identity
        /\ views[0].local_sum_ = identity

\* ------------------------------------------------ updates of the root
\* this->local_sum_ += rhs on the root is a load and a store of the word
\* into which the destructors of the views combine with remote_add or
\* atomic_cas: the owner of the root and those tasks run concurrently, and
\* the update is not atomic.

\* The root's owner loads local_sum_ and computes the sum; rhs and the sum
\* are held in old_value and new_value until the store.
RootLoad(rhs) ==
    /\ views[0].st = "live"
    /\ views[0].cnt < MaxAdds
    /\ views' = [views EXCEPT ![0].st = "adding",
                               ![0].old_value = rhs,
                               ![0].new_value = views[0].local_sum_ + rhs]
    /\ UNCHANGED <<monoid, retried, reduceOthers>>

\* The root's owner stores the sum.
RootStore ==
    /\ views[0].st = "adding"
    /\ views' = [views EXCEPT ![0].st = "live",
                               ![0].local_sum_ = views[0].new_value,
                               ![0].cnt = @ + 1,
                               ![0].added = @ + views[0].old_value,
                               ![0].old_value = 0,
                               ![0].new_value = 0]
    /\ UNCHANGED <<monoid, retried, reduceOthers>>

ReducePartialNext ==
    \/ \E c \in ChildIds, src \in ViewIds : CopyConstruct(c, src)
    \/ \E c \in ChildIds, rhs \in Incs : Add(c, rhs)
    \/ \E rhs \in Incs : RootLoad(rhs)
    \/ RootStore
    \/ \E c \in ChildIds : Destroy(c)
    \/ \E c \in ChildIds : ReduceRead(c)
    \/ \E c \in ChildIds : ReduceCas(c)

SpecReducePartial == SpecReduceInit /\ [][ReducePartialNext]_vars

\* C36: partial-sum invariant -- in every reachable state the root's
\* accumulator equals what the root itself was handed by += plus the final
\* local values of exactly the views that have been destroyed: nothing of a
\* view that is alive or still inside its destructor, every destroyed view
\* in full and once.
PartialSumInvariant ==
    views[0].local_sum_ = identity + views[0].added + SumAdded(Dead)

\* ======================================================================
\* repl<T>  (src/replicated.h)
\* ======================================================================

\* The repl<long> objects of the model and the values given to them.
ReplIds == {1, 2}
Values == {7, 42}

\* Contents of freshly allocated replicated storage: anything.
Junk == [Nodelets -> Values]

\* A repl<T> object.
\*   st   : "none" (not constructed) or "live"
\*   val  : the copy of val on every nodelet
\*   init : value given to the constructor
\*   last : last completed public operation
\*   arg  : the value it broadcast, when it was a construction or assignment
NoRepl == [st |-> "none", val |-> <<>>, init |-> 0, last |-> "none", arg |-> 0]

ReplInit == rv = [o \in ReplIds |-> NoRepl]

RECURSIVE AssignFrom(_, _, _)
\* for (long i = 0; i < NODELETS(); ++i) { get_nth(i) = rhs; }
AssignFrom(val, i, rhs) ==
    IF i < nodelets THEN AssignFrom([val EXCEPT ![i] = rhs], i + 1, rhs)
    ELSE val

\* Faulty variant of AssignAll: only the copy of the executing nodelet is written.
AssignLocalOnly(val, i, rhs) == [val EXCEPT ![loc] = rhs]

\* repl& operator=(const T& rhs), the loop started at i.
AssignAll(val, i, rhs) == AssignFrom(val, i, rhs)

\* repl<T>(T x) { operator=(x); }  on storage with arbitrary contents.
ReplConstruct(o, x) ==
    /\ rv[o].st = "none"
    /\ \E junk \in Junk :
          rv' = [rv EXCEPT ![o] = [st |-> "live", val |-> AssignAll(junk, 0, x),
                                   init |-> x, last |-> "construct", arg |-> x]]
    /\ UNCHANGED <<loc, replOthers>>

\* Faulty variant of ReplCopyConstruct: the implicit member-wise copy, which
\* stores other.val into the executing nodelet's copy of val only.
ReplCopyConstructMemberwise(o, other) ==
    /\ rv[o].st = "none"
    /\ rv[other].st = "live"
    /\ LET x == rv[other].val[loc]
       IN \E junk \in Junk :
            rv' = [rv EXCEPT ![o] = [st |-> "live", val |-> [junk EXCEPT ![loc] = x],
                                     init |-> x, last |-> "copy", arg |-> x]]
    /\ UNCHANGED <<loc, replOthers>>

\* repl(const repl& other) { operator=(other.val); }  -- other.val is the
\* copy of other on the executing nodelet.
ReplCopyConstruct(o, other) ==
    /\ rv[o].st = "none"
    /\ rv[other].st = "live"
    /\ LET x == rv[other].val[loc]
       IN \E junk \in Junk :
            rv' = [rv EXCEPT ![o] = [st |-> "live", val |-> AssignAll(junk, 0, x),
                                     init |-> x, last |-> "copy", arg |-> x]]
    /\ UNCHANGED <<loc, replOthers>>

\* v = rhs
ReplAssign(o, rhs) ==
    /\ rv[o].st = "live"
    /\ rv' = [rv EXCEPT ![o].val = AssignAll(@, 0, rhs),
                         ![o].last = "assign", ![o].arg = rhs]
    /\ UNCHANGED <<loc, replOthers>>

\* operator T& () / T& get() { return val; }  and a store through the
\* reference: val is the copy of the executing nodelet.
ReplRefWrite(o, y) ==
    /\ rv[o].st = "live"
    /\ rv' = [rv EXCEPT ![o].val[loc] = y,
                         ![o].last = "refwrite", ![o].arg = 0]
    /\ UNCHANGED <<loc, replOthers>>

\* T& get_nth(long n) { return *pmanip::get_nth(&val, n); }  and a store
\* through the reference.
ReplNthWrite(o, n, y) ==
    /\ rv[o].st = "live"
    /\ rv' = [rv EXCEPT ![o].val[n] = y,
                         ![o].last = "nthwrite", ![o].arg = 0]
    /\ UNCHANGED <<loc, replOthers>>

\* operator const T& () const: a read returns the executing nodelet's copy.
LocalRead(o, n) == rv[o].val[n]

ReplNext ==
    \/ \E o \in ReplIds, x \in Values : ReplConstruct(o, x)
    \/ \E o, other \in ReplIds : ReplCopyConstruct(o, other)
    \/ \E o \in ReplIds, y \in Values : ReplAssign(o, y)
    \/ \E o \in ReplIds, y \in Values : ReplRefWrite(o, y)
    \/ \E o \in ReplIds, n \in Nodelets, y \in Values : ReplNthWrite(o, n, y)
    \/ \E n \in Nodelets : Migrate(n)

SpecReplInit ==
    /\ nodelets \in 1 .. MaxNodelets /\ loc \in Nodelets
    /\ ReplInit /\ MutexIdle /\ WalkIdle /\ ReduceIdle /\ ShallowIdle /\ DeepIdle /\ ArrayIdle
    /\ KindIdle /\ AccIdle /\ SlotIdle /\ AllocIdle

SpecRepl == SpecReplInit /\ [][ReplNext]_vars

LiveRepl == {o \in ReplIds : rv[o].st = "live"}

\* C7: after construct-with-value x every nodelet's copy holds x, and after
\* an assignment v = y every nodelet's copy holds y: a local read on any
\* nodelet returns the last assigned value.
BroadcastOnConstructAndAssign ==
    \A o \in LiveRepl :
        rv[o].last \in {"construct", "assign"} =>
            \A n \in Nodelets : LocalRead(o, n) = rv[o].arg

\* C7 witness: v(42) then v = 7 on 4 nodelets: every nodelet reads 7.
FortyTwoThenSeven ==
    /\ nodelets = 4
    /\ rv[1].st = "live"
    /\ rv[1].init = 42
    /\ rv[1].last = "assign"
    /\ \A n \in Nodelets : LocalRead(1, n) = 7

AllCopiesEqual(o) == \A n, m \in Nodelets : rv[o].val[n] = rv[o].val[m]

\* C8 as stated: after every completed public operation, reference writes
\* included, all copies of a constructed repl<T> hold the same value.
ValueReplicaAfterEveryOperation == \A o \in LiveRepl : AllCopiesEqual(o)

\* C8 amended: all copies are equal after construct-with-value,
\* copy-construct and assignment; a write through the T& conversion or
\* get() changes the executing nodelet's copy only, and a write through
\* get_nth(i) changes copy i only.
ValueReplicaAfterBroadcast ==
    /\ [](\A o \in LiveRepl :
            rv[o].last \in {"construct", "copy", "assign"} => AllCopiesEqual(o))
    /\ [][\A o \in ReplIds :
            (rv[o].st = "live" /\ rv'[o] # rv[o]
                /\ rv'[o].last \in {"refwrite", "nthwrite"}) =>
            /\ Cardinality({n \in Nodelets : rv'[o].val[n] # rv[o].val[n]}) <= 1
            /\ rv'[o].last = "refwrite" =>
                  \A n \in Nodelets \ {loc} : rv'[o].val[n] = rv[o].val[n]]_vars

\* C8 witness: after a write through the T& conversion the copies differ.
RefWriteDiverged ==
    \E o \in LiveRepl :
        /\ rv[o].last = "refwrite"
        /\ \E n \in Nodelets : n # loc /\ rv[o].val[n] # rv[o].val[loc]

\* ======================================================================
\* repl_shallow<T>, mirrored<T>  (src/replicated.h, src/mirrored.h)
\* ======================================================================

\* The repl_shallow<T> object, T trivially copyable with one field.
\*   st     : "none", "live" or "dead"
\*   wrapper: "repl_shallow" or "mirrored"
\*   copy   : the copy of T on every nodelet
\*   init   : the value T's constructor was given
\*   origin : nodelet of the copy T's constructor built
\*   last   : last completed operation
\*   dtor   : per nodelet, how often ~T() ran on its copy
\*   dnode  : nodelet of the task that destroyed the object
\*   twin   : the copy of T on every nodelet in a second repl_shallow<T>,
\*            copy-constructed from this one
NoShallow ==
    [st |-> "none", wrapper |-> "none", copy |-> <<>>, init |-> 0, origin |-> 0,
     last |-> "none", dtor |-> <<>>, dnode |-> 0, twin |-> <<>>]

ShallowInit == sh = NoShallow

\* memcpy(dst, src, sizeof(U)): the destination becomes the source's bytes.
do_shallow_copy(dst, src) == src

\* Faulty variant of LocalCopy: the constructed copy is taken to be the first
\* nodelet's.
LocalCopyFirst == CHOOSE n \in Nodelets : \A m \in Nodelets : n <= m

\* T* local = &get_nth(NODE_ID());
LocalCopy == loc

RECURSIVE ShallowReplicate(_, _, _)
\* for (long i = 0; i < NODELETS(); ++i) {
\*     T * remote = &get_nth(i);
\*     if (local == remote) { continue; }
\*     do_shallow_copy(remote, local); }
ShallowReplicate(copy, local, i) ==
    IF i < nodelets
    THEN ShallowReplicate(
             IF i = local THEN copy
             ELSE [copy EXCEPT ![i] = do_shallow_copy(copy[i], copy[local])],
             local, i + 1)
    ELSE copy

RECURSIVE MirrorReplicate(_, _, _)
\* mirrored<T>: the same loop with memcpy(remote, local, sizeof(T)).
MirrorReplicate(copy, local, i) ==
    IF i < nodelets
    THEN MirrorReplicate(
             IF i = local THEN copy ELSE [copy EXCEPT ![i] = copy[local]],
             local, i + 1)
    ELSE copy

\* new repl_shallow<T>(x) / new mirrored<T>(x) by a task on nodelet loc:
\* replicated storage with arbitrary contents is allocated, T(x) is built
\* through this, i.e. in the copy on loc, then the loop replicates it.
ShallowConstruct(w, x) ==
    /\ sh.st = "none"
    /\ \E junk \in [Nodelets -> Values] :
          LET built == [junk EXCEPT ![loc] = x]
          IN sh' = [sh EXCEPT
                 !.st = "live", !.wrapper = w, !.init = x, !.origin = loc,
                 !.last = "construct",
                 !.copy = IF w = "repl_shallow"
                          THEN ShallowReplicate(built, LocalCopy, 0)
                          ELSE MirrorReplicate(built, LocalCopy, 0),
                 !.dtor = [n \in Nodelets |-> 0]]
    /\ UNCHANGED <<loc, shallowOthers>>

\* A member of T is written through the wrapper: the access goes to the
\* copy on the executing nodelet.
ShallowLocalWrite(y) ==
    /\ sh.st = "live"
    /\ sh' = [sh EXCEPT !.copy[loc] = y, !.last = "write"]
    /\ UNCHANGED <<loc, shallowOthers>>

\* Faulty variant of DestructedCopies: every copy is torn down.
DestructedCopiesAll == Nodelets

\* The implicit destructor runs ~T() through this: on the copy of the
\* nodelet the destroying task is on, and on no other.
DestructedCopies == {loc}

\* delete of the object: ~repl_shallow(), then operator delete.
ShallowDestroy ==
    /\ sh.st = "live"
    /\ sh' = [sh EXCEPT
             !.st = "dead", !.last = "destroy", !.dnode = loc,
             !.dtor = [n \in Nodelets |->
                          IF n \in DestructedCopies THEN @[n] + 1 ELSE @[n]]]
    /\ UNCHANGED <<loc, shallowOthers>>

ShallowNext ==
    \/ \E w \in {"repl_shallow", "mirrored"}, x \in Values : ShallowConstruct(w, x)
    \/ \E y \in Values : ShallowLocalWrite(y)
    \/ ShallowDestroy
    \/ \E n \in Nodelets : Migrate(n)

SpecShallowInit ==
    /\ nodelets \in 1 .. MaxNodelets /\ loc \in Nodelets
    /\ ShallowInit /\ MutexIdle /\ WalkIdle /\ ReduceIdle /\ ReplIdle /\ DeepIdle /\ ArrayIdle
    /\ KindIdle /\ AccIdle /\ SlotIdle /\ AllocIdle

SpecShallow == SpecShallowInit /\ [][ShallowNext]_vars

\* C9: after the constructor returns, the copy on every nodelet is
\* identical to the origin copy built by T's constructor, whichever nodelet
\* the constructing task runs on.
ShallowCopiesMatchOrigin ==
    sh.last = "construct" =>
        /\ sh.copy[sh.origin] = sh.init
        /\ \A n \in Nodelets : sh.copy[n] = sh.copy[sh.origin]

\* C9 witness: constructed by a task on nodelet 2 of 4.
ShallowBuiltOnNodeletTwo ==
    /\ nodelets = 4
    /\ sh.last = "construct"
    /\ sh.origin = 2
    /\ sh.wrapper = "repl_shallow"

RECURSIVE SumDtor(_)
\* Total number of ~T() runs on the copies of the nodelets in S.
SumDtor(S) ==
    IF S = {} THEN 0
    ELSE LET n == CHOOSE x \in S : TRUE IN sh.dtor[n] + SumDtor(S \ {n})

RECURSIVE ShallowCopyFromLocal(_, _, _, _)
\* Faulty variant of ShallowCopyEach: every copy is made from the source's
\* copy on the constructing task's nodelet.
ShallowCopyFromLocal(copy, other, i, here) ==
    IF i < nodelets
    THEN ShallowCopyFromLocal(
             [copy EXCEPT ![i] = do_shallow_copy(copy[i], other[here])],
             other, i + 1, here)
    ELSE copy

RECURSIVE ShallowCopyEach(_, _, _, _)
\* for (long i = 0; i < NODELETS(); ++i) {
\*     do_shallow_copy(&get_nth(i), &other.get_nth(i)); }
ShallowCopyEach(copy, other, i, here) ==
    IF i < nodelets
    THEN ShallowCopyEach(
             [copy EXCEPT ![i] = do_shallow_copy(copy[i], other[i])],
             other, i + 1, here)
    ELSE copy

\* new repl_shallow<T>(other) by a task on nodelet loc: replicated storage
\* with arbitrary contents is allocated, the base T(other, shallow_copy())
\* is built in the copy on loc from other's copy on loc, then the loop
\* copies nodelet by nodelet.
ShallowCopyConstructAll ==
    /\ sh.st = "live"
    /\ sh.wrapper = "repl_shallow"
    /\ sh.twin = <<>>
    /\ \E junk \in [Nodelets -> Values] :
          LET built == [junk EXCEPT ![loc] = do_shallow_copy(junk[loc], sh.copy[loc])]
          IN sh' = [sh EXCEPT !.last = "copy",
                              !.twin = ShallowCopyEach(built, sh.copy, 0, loc)]
    /\ UNCHANGED <<loc, shallowOthers>>

ShallowCopyNext ==
    \/ \E x \in Values : ShallowConstruct("repl_shallow", x)
    \/ \E y \in Values : ShallowLocalWrite(y)
    \/ ShallowCopyConstructAll
    \/ \E n \in Nodelets : Migrate(n)

SpecShallowCopy == SpecShallowInit /\ [][ShallowCopyNext]_vars

\* C26: after copy construction of a repl_shallow from another, the copy of
\* the new object on every nodelet i is the shallow copy of the source's
\* copy on nodelet i, also when the source's copies differ from each other.
ShallowCopyPerNodelet ==
    sh.last = "copy" =>
        \A i \in Nodelets : sh.twin[i] = do_shallow_copy(sh.twin[i], sh.copy[i])

\* C26 witness: the source's copies differed when it was copied by a task
\* on a nodelet other than the one that built it.
ShallowCopiedDiverged ==
    /\ sh.last = "copy"
    /\ loc # sh.origin
    /\ \E i, j \in Nodelets : sh.copy[i] # sh.copy[j]
    /\ sh.twin = sh.copy

\* ======================================================================
\* repl_deep<T>  (src/replicated.h)
\* ======================================================================

\* The repl_deep<T> object.  T is a class that owns one heap buffer: its
\* constructor allocates the buffer and stores the constructor argument in it.
\*   st     : "none", "live", "dead", or "failed" (a constructor of T threw)
\*   copy   : per nodelet, the buffer owned by the copy of T there
\*   heap   : contents of the buffers, indexed by buffer
\*   init   : the argument value the caller passed
\*   temp   : the argument was passed as a temporary
\*   seen   : per nodelet, the argument value the construction of its copy saw
\*   ctor   : per nodelet, how often T's constructor ran on its copy
\*   dtor   : per nodelet, how often ~T() ran on its copy
\*   order  : the nodelets in the order their copies were destructed
\*   origin : nodelet of the constructing task
\*   dnode  : nodelet of the destroying task
\*   last   : last completed operation
\*   wnode  : nodelet whose copy the last mutation was applied to
\*   built  : constructor calls that had returned when one threw
NoDeep ==
    [st |-> "none", copy |-> <<>>, heap |-> <<>>, init |-> 0, temp |-> FALSE,
     seen |-> <<>>, ctor |-> <<>>, dtor |-> <<>>, order |-> <<>>, origin |-> 0,
     dnode |-> 0, last |-> "none", wnode |-> 0, built |-> 0]

DeepInit == dp = NoDeep

\* What a moved-from argument may hold afterwards: valid but unspecified.
MovedFromValues == Values \cup {0}

\* T(arg) run on the copy of nodelet n: a fresh buffer receives arg.
TConstruct(d, n, arg) ==
    [d EXCEPT !.heap = Append(@, arg),
              !.copy[n] = Len(d.heap) + 1,
              !.ctor[n] = @ + 1,
              !.seen[n] = arg]

\* ~T() run on the copy of nodelet n.
TDestruct(d, n) ==
    [d EXCEPT !.dtor[n] = @ + 1, !.order = Append(@, n)]

\* The value of args after one T(std::forward<Args>(args)...).  fw.temp: the
\* caller passed a temporary, so std::forward yields an rvalue; fw.consumes:
\* T's constructor moves from an rvalue argument; fw.m: what is left of it.
ForwardArg(arg, fw) == IF fw.temp /\ fw.consumes THEN fw.m ELSE arg

\* Faulty variant of PlacementNew: the remote copy is made as repl_shallow makes
\* it, by duplicating the local copy's representation.
PlacementShallow(d, n, arg) ==
    [d EXCEPT !.copy[n] = d.copy[d.origin], !.ctor[n] = @ + 1, !.seen[n] = arg]

\* new (remote) T(std::forward<Args>(args)...);
PlacementNew(d, n, arg) == TConstruct(d, n, arg)

\* Faulty variant of DeepSkip: the local copy is not skipped.
DeepSkipNever(local, remote) == FALSE

\* if (local == remote) continue;
DeepSkip(local, remote) == local = remote

\* T * local = &get_nth(NODE_ID());
DeepLocal == loc

RECURSIVE DeepReplicate(_, _, _, _, _)
\* for (long n = 0; n < NODELETS(); ++n) {
\*     T * remote = &get_nth(n);
\*     if (local == remote) continue;
\*     new (remote) T(std::forward<Args>(args)...); }
DeepReplicate(d, arg, fw, local, n) ==
    IF n < nodelets
    THEN IF DeepSkip(local, n)
         THEN DeepReplicate(d, arg, fw, local, n + 1)
         ELSE DeepReplicate(PlacementNew(d, n, arg), ForwardArg(arg, fw), fw,
                            local, n + 1)
    ELSE d

\* new repl_deep<T>(x) by a task on nodelet loc: T(std::forward<Args>(args)...)
\* builds the copy reached through this, then the loop builds the others.
DeepConstruct(temp, consumes, x) ==
    /\ dp.st = "none"
    /\ \E m \in MovedFromValues :
          LET fw == [temp |-> temp, consumes |-> consumes, m |-> m]
              zero == [n \in Nodelets |-> 0]
              blank == [NoDeep EXCEPT !.st = "live", !.init = x, !.temp = temp,
                                      !.origin = loc, !.last = "construct",
                                      !.copy = zero, !.seen = zero,
                                      !.ctor = zero, !.dtor = zero]
              base == TConstruct(blank, loc, x)
          IN dp' = DeepReplicate(base, ForwardArg(x, fw), fw, DeepLocal, 0)
    /\ UNCHANGED <<loc, deepOthers>>

\* A member function of T that stores y in the buffer, called through the
\* wrapper: it runs on the copy of the executing nodelet.
DeepLocalWrite(y) ==
    /\ dp.st = "live"
    /\ dp' = [dp EXCEPT !.heap[dp.copy[loc]] = y, !.last = "write", !.wnode = loc]
    /\ UNCHANGED <<loc, deepOthers>>

\* The same member function called on get_nth(n).
DeepNthWrite(n, y) ==
    /\ dp.st = "live"
    /\ dp' = [dp EXCEPT !.heap[dp.copy[n]] = y, !.last = "write", !.wnode = n]
    /\ UNCHANGED <<loc, deepOthers>>

RECURSIVE DeepTearDown(_, _, _)
\* for (long n = 0; n < NODELETS(); ++n) {
\*     T * remote = &get_nth(n);
\*     if (local == remote) continue;
\*     remote->~T(); }
DeepTearDown(d, local, n) ==
    IF n < nodelets
    THEN DeepTearDown(IF DeepSkip(local, n) THEN d ELSE TDestruct(d, n),
                      local, n + 1)
    ELSE d

\* delete of the object by a task on nodelet loc: the body of ~repl_deep(),
\* then the base class destructor ~T() on the copy reached through this.
DeepDestroy ==
    /\ dp.st = "live"
    /\ dp' = [TDestruct(DeepTearDown(dp, DeepLocal, 0), loc)
                 EXCEPT !.st = "dead", !.last = "destroy", !.dnode = loc]
    /\ UNCHANGED <<loc, deepOthers>>

DeepNext ==
    \/ \E temp, consumes \in BOOLEAN, x \in Values : DeepConstruct(temp, consumes, x)
    \/ \E y \in Values : DeepLocalWrite(y)
    \/ \E n \in Nodelets, y \in Values : DeepNthWrite(n, y)
    \/ DeepDestroy
    \/ \E n \in Nodelets : Migrate(n)

SpecDeepInit ==
    /\ nodelets \in 1 .. MaxNodelets /\ loc \in Nodelets
    /\ DeepInit /\ MutexIdle /\ WalkIdle /\ ReduceIdle /\ ReplIdle /\ ShallowIdle
    /\ ArrayIdle /\ KindIdle /\ AccIdle /\ SlotIdle /\ AllocIdle

SpecDeep == SpecDeepInit /\ [][DeepNext]_vars

\* The value a reader of nodelet n's copy of T observes.
DeepObserved(d, n) == d.heap[d.copy[n]]

\* C11: no state is shared between the copies of a repl_deep<T> after
\* construction, and a mutation applied to nodelet i's copy leaves the
\* value observed in every other nodelet's copy unchanged.
DeepIndependence ==
    /\ [](dp.st = "live" =>
            \A i, j \in Nodelets : i # j => dp.copy[i] # dp.copy[j])
    /\ [][(dp.st = "live" /\ dp'.last = "write" /\ dp' # dp) =>
            \A j \in Nodelets \ {dp'.wnode} :
                DeepObserved(dp', j) = DeepObserved(dp, j)]_vars

\* C11 witness: all copies were built from the same lvalue argument, then
\* one copy was changed and another still shows the constructor argument.
DeepOneCopyChanged ==
    /\ dp.st = "live"
    /\ dp.last = "write"
    /\ ~dp.temp
    /\ DeepObserved(dp, dp.wnode) # dp.init
    /\ \E j \in Nodelets : j # dp.wnode /\ DeepObserved(dp, j) = dp.init

\* C12: all NODELETS() copies start in equal states built from the argument
\* the caller passed, also when it is a temporary that T's constructor
\* consumes: the k-th construction sees the same argument value as the first.
DeepCopiesStartEqual ==
    (dp.st = "live" /\ dp.last = "construct") =>
        \A n \in Nodelets :
            /\ dp.seen[n] = dp.init
            /\ DeepObserved(dp, n) = dp.init

RECURSIVE DeepReplicateThrow(_, _, _, _, _)
\* The loop of the constructor body when the constructor call after `left`
\* more completed ones throws: the loop is left at that call.
DeepReplicateThrow(d, arg, local, n, left) ==
    IF n < nodelets
    THEN IF DeepSkip(local, n)
         THEN DeepReplicateThrow(d, arg, local, n + 1, left)
         ELSE IF left = 0 THEN d
              ELSE DeepReplicateThrow(PlacementNew(d, n, arg), arg, local,
                                      n + 1, left - 1)
    ELSE d

\* Faulty variant of EntersBody: the loop runs although the base class
\* constructor threw.
EntersBodyAlways(k) == k >= 0

\* The body of repl_deep(Args&&...) is entered once the mem-initializer
\* T(std::forward<Args>(args)...) has returned; k constructor calls return
\* before the throwing one.
EntersBody(k) == k >= 1

\* new repl_deep<T>(x) by a task on nodelet loc when T's constructor throws
\* at its (k+1)-th call.  k = 0: the origin copy's construction throws.
\* k >= 1: a placement-new in the body throws; unwinding destroys the base
\* class subobject, the copy reached through this.
DeepConstructThrows(k, x) ==
    /\ dp.st = "none"
    /\ k < nodelets
    /\ LET zero == [n \in Nodelets |-> 0]
           blank == [NoDeep EXCEPT !.st = "failed", !.init = x,
                                   !.origin = loc, !.last = "throw",
                                   !.copy = zero, !.seen = zero,
                                   !.ctor = zero, !.dtor = zero, !.built = k]
           base == IF k = 0 THEN blank ELSE TConstruct(blank, loc, x)
           body == IF EntersBody(k)
                   THEN DeepReplicateThrow(base, x, DeepLocal, 0, k - 1)
                   ELSE base
       IN dp' = IF k = 0 THEN body ELSE TDestruct(body, loc)
    /\ UNCHANGED <<loc, deepOthers>>

DeepThrowNext ==
    \/ \E temp, consumes \in BOOLEAN, x \in Values : DeepConstruct(temp, consumes, x)
    \/ \E k \in 0 .. MaxNodelets - 1, x \in Values : DeepConstructThrows(k, x)
    \/ \E y \in Values : DeepLocalWrite(y)
    \/ DeepDestroy
    \/ \E n \in Nodelets : Migrate(n)

SpecDeepThrow == SpecDeepInit /\ [][DeepThrowNext]_vars

\* C27: when the construction of the origin copy fails, no copy on any
\* nodelet has been constructed, wholly or in part: no constructor of T has
\* run to completion, no buffer is owned by any copy, none was destructed.
OriginFailureBuildsNothing ==
    (dp.st = "failed" /\ dp.built = 0) =>
        /\ dp.heap = <<>>
        /\ \A n \in Nodelets :
              dp.ctor[n] = 0 /\ dp.copy[n] = 0 /\ dp.dtor[n] = 0

\* C27 witness: on several nodelets the origin copy's constructor threw for
\* a task that is not on nodelet 0.
OriginConstructorThrew ==
    /\ dp.st = "failed"
    /\ dp.built = 0
    /\ nodelets >= 3
    /\ dp.origin # 0

\* ======================================================================
\* striped_array<T>, repl_array<T>  (src/striped_array.h, src/repl_array.h)
\* ======================================================================

\* The array objects live in replicated storage obtained through
\* repl_new::operator new, as the members _a, _b, _c of the benchmark's
\* stream object do.
ArrIds == {1, 2}

nullptr == 0

\* An array object: the members repl<T*> ptr_ / data_ and repl<long> n_ /
\* size_, one copy per nodelet.
\*   st  : "none" (not constructed) or "live"
\*   ptr : per nodelet, the copy of ptr_ / data_ (a buffer of bufs, or nullptr)
\*   n   : per nodelet, the copy of n_ / size_
\*   op  : last completed operation on the object
NoArr == [st |-> "none", ptr |-> <<>>, n |-> <<>>, op |-> "none"]

\* The program run.
\*   halt   : "none", or why execution stopped ("oom", "assert", "fault")
\*   failed : "none", or the allocation that returned a null pointer
\*   store  : "none" or "ok": the replicated storage holding the array objects
\*   mir    : the mirrored<T> object: "none", "live" or "onnull"
\*   nw     : element writes made so far
NoRun == [halt |-> "none", failed |-> "none", store |-> "none", mir |-> "none",
          nw |-> 0]

\* The values the element writes store, in this order.
WriteSeq == <<7, 42>>

Range(f) == {f[x] : x \in DOMAIN f}

ArrayInit ==
    /\ akind \in {"striped", "repl"}
    /\ arr = [a \in ArrIds |-> NoArr]
    /\ bufs = <<>>
    /\ run = NoRun

Halted == run.halt # "none"

\* EMU_OUT_OF_MEMORY(bytes): the failure is reported and the process ends.
EMU_OUT_OF_MEMORY(r, site) == [r EXCEPT !.halt = "oom", !.failed = site]

\* Cells a buffer of `size` elements has on each nodelet: mw_mallocrepl gives
\* every nodelet the whole block, mw_malloc1dlong deals the elements out
\* round-robin.
Slots(size) ==
    IF akind = "repl" THEN size ELSE (size + nodelets - 1) \div nodelets

\* A buffer as the allocator returns it: nothing written yet, never freed.
FreshBuf(size) ==
    [size |-> size,
     data |-> [nd \in Nodelets |-> [k \in 1 .. Slots(size) |-> 0]],
     frees |-> 0]

\* allocate_storage(size) / allocate(size) when the allocator returns a
\* buffer: it is the next entry of bufs.
allocate(bs, size) == Append(bs, FreshBuf(size))

\* mw_free(p): the memory is gone.
mw_free(bs, p) ==
    [bs EXCEPT ![p] = [size |-> 0, data |-> [nd \in Nodelets |-> <<>>],
                       frees |-> bs[p].frees + 1]]

\* Faulty variant of StripedAt: the element is looked up in the reader's own
\* nodelet, as in a replicated block.
StripedAtReader(q, i) == <<q, (i \div nodelets) + 1>>

\* ptr_[i] on a pointer of mw_malloc1dlong: element i is cell i / NODELETS()
\* of nodelet i mod NODELETS(), whichever nodelet q the task is on.
StripedAt(q, i) == <<i % nodelets, (i \div nodelets) + 1>>

\* data()[i] on a pointer of mw_mallocrepl: a replicated address, which
\* denotes the block of the nodelet q the task is on.
ReplAt(q, i) == <<q, i + 1>>

\* The cell operator[] (i) / data()[i] denotes for a task on nodelet q.
ElemCell(q, i) == IF akind = "striped" THEN StripedAt(q, i) ELSE ReplAt(q, i)

\* const T& operator[] (long i) const { return ptr_[i]; } by a task on q.
ArrRead(a, i, q) ==
    LET c == ElemCell(q, i)
    IN bufs[arr[a].ptr[q]].data[c[1]][c[2]]

\* long size() const { return n_; } by a task on q.
size(a, q) == arr[a].n[q]

Zero == [nd \in Nodelets |-> 0]

\* repl_new::operator new for the object that holds the arrays.
ArrNew(ok) ==
    /\ ~Halted
    /\ run.store = "none"
    /\ run' = IF ok THEN [run EXCEPT !.store = "ok"]
              ELSE EMU_OUT_OF_MEMORY(run, "repl_new")
    /\ UNCHANGED <<akind, arr, bufs, loc, arrayOthers>>

\* new mirrored<T>(x), made before the arrays' storage is allocated:
\* operator new returns mw_mallocrepl(sz) as it is.  On a null pointer the
\* constructor still runs: it copies T into the missing storage, or faults
\* doing so.
MirroredNew(ok, outcome) ==
    /\ ~Halted
    /\ run.mir = "none"
    /\ run.store = "none"
    /\ run' = IF ok THEN [run EXCEPT !.mir = "live"]
              ELSE IF outcome = "fault"
                   THEN [run EXCEPT !.failed = "mirrored", !.halt = "fault"]
                   ELSE [run EXCEPT !.failed = "mirrored", !.mir = "onnull"]
    /\ UNCHANGED <<akind, arr, bufs, loc, arrayOthers>>

\* striped_array() / repl_array() : ptr_(nullptr), n_(0)
ArrDefault(a) ==
    /\ ~Halted
    /\ run.store = "ok"
    /\ arr[a].st = "none"
    /\ arr' = [arr EXCEPT ![a] = [st |-> "live",
                                  ptr |-> AssignAll(Zero, 0, nullptr),
                                  n |-> AssignAll(Zero, 0, 0),
                                  op |-> "default"]]
    /\ UNCHANGED <<akind, bufs, run, loc, arrayOthers>>

\* explicit striped_array(long n) : ptr_(allocate_storage(n)), n_(n)
\* explicit repl_array(long size) : data_(allocate(size)), size_(size)
ArrSized(a, n, ok) ==
    /\ ~Halted
    /\ run.store = "ok"
    /\ arr[a].st = "none"
    /\ Len(bufs) < MaxAllocs
    /\ IF ok
       THEN /\ bufs' = allocate(bufs, n)
            /\ arr' = [arr EXCEPT ![a] =
                          [st |-> "live",
                           ptr |-> AssignAll(Zero, 0, Len(bufs) + 1),
                           n |-> AssignAll(Zero, 0, n),
                           op |-> "sized"]]
            /\ UNCHANGED run
       ELSE /\ run' = EMU_OUT_OF_MEMORY(run, "sized")
            /\ UNCHANGED <<arr, bufs>>
    /\ UNCHANGED <<akind, loc, arrayOthers>>

\* p points at a buffer that is allocated and not freed.
Valid(p) == p # nullptr /\ bufs[p].frees = 0

\* n elements can be read through p.
Readable(p, n) == Valid(p) /\ n <= bufs[p].size

\* a[i] = v / a.data()[i] = v by the task on nodelet loc, i < size().  A
\* store through a pointer to freed memory faults, or lands in memory that
\* belongs to no buffer.
ArrWrite(a, i) ==
    /\ ~Halted
    /\ arr[a].st = "live"
    /\ run.nw < Len(WriteSeq)
    /\ i < size(a, loc)
    /\ LET c == ElemCell(loc, i)
           p == arr[a].ptr[loc]
       IN IF Valid(p)
          THEN /\ bufs' = [bufs EXCEPT ![p].data[c[1]][c[2]] = WriteSeq[run.nw + 1]]
               /\ run' = [run EXCEPT !.nw = @ + 1]
          ELSE /\ bufs' = bufs
               /\ \E h \in {"none", "fault"} :
                     run' = [run EXCEPT !.nw = @ + 1, !.halt = h]
    /\ arr' = [arr EXCEPT ![a].op = "write"]
    /\ UNCHANGED <<akind, loc, arrayOthers>>

\* striped_array::resize: memcpy(new_ptr, ptr_, n_ * sizeof(T)) copies the
\* first n elements cell for cell.
StripedCopy(bs, dst, src, n) ==
    [bs EXCEPT ![dst].data =
        [nd \in Nodelets |->
            [k \in 1 .. Len(bs[dst].data[nd]) |->
                IF (k - 1) * nodelets + nd < n THEN bs[src].data[nd][k]
                ELSE bs[dst].data[nd][k]]]]

\* pmanip::get_nth(new_ptr, nlet): the block of nodelet nlet.
pmanip_get_nth(p, nlet) == <<p, nlet>>

\* repl_array::resize, the copy loop run by the task on nodelet here:
\*   memcpy(pmanip::get_nth(new_ptr, nlet), data_.get_nth(nlet), size_ * sizeof(T))
\* data_.get_nth(nlet) is the pointer held by nodelet nlet's copy of data_:
\* a replicated address, denoting the block of the nodelet the task is on.
ReplCopy(bs, dst, srcs, n, here) ==
    [bs EXCEPT ![dst].data =
        [nlet \in Nodelets |->
            [k \in 1 .. Len(bs[dst].data[nlet]) |->
                IF k <= n
                THEN bs[srcs[nlet]].data[here][k]
                ELSE bs[pmanip_get_nth(dst, nlet)[1]].data[pmanip_get_nth(dst, nlet)[2]][k]]]]

\* Faulty variant of ResizedSize: the size is stored only when the array grows.
ResizedSizeGrowOnly(n, new_size) == IF new_size > n THEN new_size ELSE n

\* n_ = new_size;  -- after the if, whatever new_size is
ResizedSize(n, new_size) == new_size

\* void resize(long new_size) by the task on nodelet loc.  A memcpy that reads
\* through a pointer to freed memory, or through a null pointer, faults or
\* copies what lies there.
ArrResize(a, new_size, ok) ==
    /\ ~Halted
    /\ arr[a].st = "live"
    /\ LET n == size(a, loc)
           p == arr[a].ptr[loc]
           new_ptr == Len(bufs) + 1
           fresh == allocate(bufs, new_size)
           readable == IF akind = "striped" THEN Readable(p, n)
                       ELSE \A nd \in Nodelets : Readable(arr[a].ptr[nd], n)
           copied == IF ~readable THEN fresh
                     ELSE IF akind = "striped"
                          THEN StripedCopy(fresh, new_ptr, p, n)
                          ELSE ReplCopy(fresh, new_ptr, arr[a].ptr, n, loc)
       IN IF new_size > n
          THEN /\ Len(bufs) < MaxAllocs
               /\ IF ok
                  THEN /\ bufs' = IF p # nullptr THEN mw_free(copied, p) ELSE fresh
                       /\ arr' = [arr EXCEPT
                              ![a].ptr = AssignAll(@, 0, new_ptr),
                              ![a].n = AssignAll(@, 0, ResizedSize(n, new_size)),
                              ![a].op = "resize"]
                       /\ IF p = nullptr \/ readable
                          THEN UNCHANGED run
                          ELSE \E h \in {"none", "fault"} :
                                  run' = [run EXCEPT !.halt = h]
                  ELSE /\ run' = EMU_OUT_OF_MEMORY(run, "resize")
                       /\ UNCHANGED <<arr, bufs>>
          ELSE /\ ok
               /\ arr' = [arr EXCEPT
                      ![a].n = AssignAll(@, 0, ResizedSize(n, new_size)),
                      ![a].op = "resize"]
               /\ UNCHANGED <<bufs, run>>
    /\ UNCHANGED <<akind, loc, arrayOthers>>

\* void free_storage() { if (ptr_) { mw_free(ptr_); ptr_ = nullptr; } }
\* -- its effect on the buffers; p is ptr_ as the task reads it.
free_storage(bs, p) == IF p # nullptr THEN mw_free(bs, p) ELSE bs

\* Faulty variant of free_storage_ptr: ptr_ keeps pointing at the freed buffer.
free_storage_keep(ptr, p) == ptr

\* free_storage(), its effect on ptr_:  ptr_ = nullptr;  inside the if.
free_storage_ptr(ptr, p) == IF p # nullptr THEN AssignAll(ptr, 0, nullptr) ELSE ptr

\* void clear() { free_storage(); n_ = 0; }  (striped_array only)
ArrClear(a) ==
    /\ ~Halted
    /\ akind = "striped"
    /\ arr[a].st = "live"
    /\ LET p == arr[a].ptr[loc]
       IN /\ bufs' = free_storage(bufs, p)
          /\ arr' = [arr EXCEPT
                 ![a].ptr = free_storage_ptr(@, p),
                 ![a].n = AssignAll(@, 0, 0),
                 ![a].op = "clear"]
    /\ UNCHANGED <<akind, run, loc, arrayOthers>>

\* The array the single-array operations are applied to.
Subject == {a \in ArrIds : \A b \in ArrIds : a <= b}

ArrayNext ==
    \/ \E ok \in BOOLEAN : ArrNew(ok)
    \/ \E ok \in BOOLEAN, outcome \in {"fault", "onnull"} : MirroredNew(ok, outcome)
    \/ \E a \in Subject : ArrDefault(a)
    \/ \E a \in Subject, n \in 1 .. MaxSize, ok \in BOOLEAN : ArrSized(a, n, ok)
    \/ \E a \in Subject, i \in 0 .. MaxSize - 1 : ArrWrite(a, i)
    \/ \E a \in Subject, n \in 0 .. MaxSize, ok \in BOOLEAN : ArrResize(a, n, ok)
    \/ \E a \in Subject : ArrClear(a)
    \/ \E n \in Nodelets : Migrate(n)

\* The arrays are explored on one nodelet less than the replicated objects.
SpecArrayInit ==
    /\ nodelets \in 1 .. (MaxNodelets - 1) /\ loc \in Nodelets
    /\ ArrayInit /\ MutexIdle /\ WalkIdle /\ ReduceIdle /\ ReplIdle /\ ShallowIdle
    /\ DeepIdle /\ KindIdle /\ AccIdle /\ SlotIdle /\ AllocIdle

SpecArray == SpecArrayInit /\ [][ArrayNext]_vars

\* pmanip::is_repl(&x): x lies in replicated storage.
is_repl(where) == where = "replicated"

\* repl_array(const repl_array &other), the copy loop run by the task on
\* nodelet here:
\*   memcpy(data_.get_nth(nlet), other.data_.get_nth(nlet), size_ * sizeof(T))
\* Both pointers are replicated addresses: every iteration copies the block
\* of the nodelet the task is on.
ReplCopyLocal(bs, dst, srcs, n, here) ==
    [bs EXCEPT ![dst].data[here] =
        [k \in 1 .. Len(bs[dst].data[here]) |->
            IF k <= n THEN bs[srcs[here]].data[here][k] ELSE bs[dst].data[here][k]]]

\* repl_swap(lhs, rhs), what it leaves in lhs; lhs is a member of *this, rhs
\* the same member of the by-value parameter, which lies in `where` and
\* holds the plain value rhs.  Both replicated: every nodelet's copy is
\* swapped.  Otherwise std::swap assigns repl to repl, which the implicit
\* copy assignment does on the copy of the executing nodelet.
repl_swap(lhs, rhs, where) ==
    IF is_repl("replicated") /\ is_repl(where)
    THEN [nd \in Nodelets |-> rhs]
    ELSE [lhs EXCEPT ![loc] = rhs]

\* self_type& operator=(self_type other) { swap(*this, other); return *this; }
\* called as a = b by the task on nodelet loc.  The parameter is
\* copy-constructed from b on the task's stack; constructing its repl<>
\* members runs into assert(is_repl(this)) when assertions are compiled in
\* (debug).  After the swap the parameter's destructor frees what a held.
ArrAssign(a, b, ok, debug) ==
    /\ ~Halted
    /\ a # b
    /\ arr[a].st = "live" /\ arr[b].st = "live"
    /\ Len(bufs) < MaxAllocs
    /\ LET n == size(b, loc)
           src == arr[b].ptr[loc]
           old == arr[a].ptr[loc]
           new_ptr == Len(bufs) + 1
           fresh == allocate(bufs, n)
           copied == IF ~Readable(src, n) THEN fresh
                     ELSE IF akind = "striped"
                          THEN StripedCopy(fresh, new_ptr, src, n)
                          ELSE ReplCopyLocal(fresh, new_ptr, arr[b].ptr, n, loc)
       IN IF ~ok
          THEN /\ run' = EMU_OUT_OF_MEMORY(run, "copy")
               /\ UNCHANGED <<arr, bufs>>
          ELSE IF debug /\ ~is_repl("stack")
          THEN /\ run' = [run EXCEPT !.halt = "assert"]
               /\ bufs' = fresh
               /\ UNCHANGED arr
          ELSE /\ arr' = [arr EXCEPT
                      ![a].ptr = repl_swap(@, new_ptr, "stack"),
                      ![a].n = repl_swap(@, n, "stack"),
                      ![a].op = "assign"]
               /\ bufs' = IF Valid(old) THEN mw_free(copied, old) ELSE copied
               /\ UNCHANGED run
    /\ UNCHANGED <<akind, loc, arrayOthers>>

ArrayAssignNext ==
    \/ \E ok \in BOOLEAN : ArrNew(ok)
    \/ \E a \in ArrIds : ArrDefault(a)
    \/ \E a \in ArrIds, n \in 1 .. MaxSize, ok \in BOOLEAN : ArrSized(a, n, ok)
    \/ \E a \in ArrIds, i \in 0 .. MaxSize - 1 : ArrWrite(a, i)
    \/ \E a \in Subject, b \in ArrIds, ok, debug \in BOOLEAN : ArrAssign(a, b, ok, debug)
    \/ \E n \in Nodelets : Migrate(n)

SpecArrayAssign == SpecArrayInit /\ [][ArrayAssignNext]_vars

\* Element k of nodelet p's buffer of a repl_array, as a task on p sees it.
ReplElem(a, p, k) == bufs[arr[a].ptr[p]].data[p][k + 1]

\* C14: a value written at index i < n of a striped_array by a task on any
\* nodelet is read back at index i by a task on any nodelet, and the write
\* changes no element at another index.
StripedReadYourWrite ==
    /\ []((akind = "striped") =>
            \A a \in ArrIds : arr[a].st = "live" =>
                \A p, q \in Nodelets :
                    /\ size(a, p) = size(a, q)
                    /\ \A i \in 0 .. size(a, p) - 1 :
                          ArrRead(a, i, p) = ArrRead(a, i, q))
    /\ [][\A a \in ArrIds, i \in 0 .. MaxSize - 1 :
            (akind = "striped" /\ ArrWrite(a, i)) =>
                /\ \A q \in Nodelets : ArrRead(a, i, q)' = WriteSeq[run.nw + 1]
                /\ \A j \in (0 .. size(a, loc) - 1) \ {i}, q \in Nodelets :
                      ArrRead(a, j, q)' = ArrRead(a, j, q)]_vars

\* C14 witness: on several nodelets index 1 was written, then index 0; both
\* values are read on every nodelet.
StripedBothWritten ==
    /\ akind = "striped"
    /\ nodelets >= 2
    /\ arr[1].op = "write"
    /\ size(1, loc) = 2
    /\ \A q \in Nodelets : ArrRead(1, 1, q) = WriteSeq[1] /\ ArrRead(1, 0, q) = WriteSeq[2]

\* C15: a growing resize of a repl_array keeps element k of every nodelet's
\* buffer for every k below the old size (checked for the elements that
\* were written before), makes the new slots accessible on every nodelet
\* and sets size() to new_size on every nodelet, whichever nodelet the
\* resizing task is on.
ReplResizeKeepsElements ==
    [][\A a \in ArrIds, new_size \in 0 .. MaxSize :
          (akind = "repl" /\ ArrResize(a, new_size, TRUE) /\ new_size > size(a, loc)) =>
              /\ \A p \in Nodelets : size(a, p)' = new_size
              /\ \A p \in Nodelets :
                    Len(bufs'[arr'[a].ptr[p]].data[p]) >= new_size
              /\ \A p \in Nodelets, k \in 0 .. size(a, loc) - 1 :
                    ReplElem(a, p, k) \in Range(WriteSeq) =>
                        ReplElem(a, p, k)' = ReplElem(a, p, k)]_vars

\* C16 as stated: resize(new_size) with new_size <= size() changes neither
\* size() nor the buffer nor any element, so size() never decreases.
ResizeNotLargerIsNoOp ==
    [][\A a \in ArrIds, new_size \in 0 .. MaxSize :
          (ArrResize(a, new_size, TRUE) /\ new_size <= size(a, loc)) =>
              /\ arr'[a].n = arr[a].n
              /\ arr'[a].ptr = arr[a].ptr
              /\ bufs' = bufs]_vars

\* C16 amended: resize(new_size) with new_size <= size() allocates and frees
\* nothing and leaves the buffer pointer and every stored element unchanged;
\* size() becomes new_size on every nodelet, so it decreases when
\* new_size < size().
ResizeNotLargerKeepsBuffer ==
    [][\A a \in ArrIds, new_size \in 0 .. MaxSize :
          (ArrResize(a, new_size, TRUE) /\ new_size <= size(a, loc)) =>
              /\ \A p \in Nodelets : size(a, p)' = new_size
              /\ arr'[a].ptr = arr[a].ptr
              /\ bufs' = bufs]_vars

\* C16 witness: after a resize the array is shorter than its buffer.
ResizedBelowBuffer ==
    /\ arr[1].op = "resize"
    /\ arr[1].ptr[loc] # nullptr
    /\ size(1, loc) < bufs[arr[1].ptr[loc]].size

\* C17: after clear() of a striped_array size() is 0 and the buffer pointer
\* null on every nodelet and the storage has been freed exactly once; on an
\* empty or cleared array clear() frees nothing; a following resize(n),
\* n > 0, allocates fresh storage and yields size() = n.
ClearFreesOnce ==
    /\ [](\A b \in 1 .. Len(bufs) : bufs[b].frees <= 1)
    /\ [][\A a \in ArrIds :
            ArrClear(a) =>
                /\ \A p \in Nodelets : size(a, p)' = 0 /\ arr'[a].ptr[p] = nullptr
                /\ LET old == arr[a].ptr[loc]
                   IN IF old = nullptr THEN bufs' = bufs
                      ELSE /\ bufs[old].frees = 0 /\ bufs'[old].frees = 1
                           /\ \A b \in (1 .. Len(bufs)) \ {old} : bufs'[b] = bufs[b]]_vars
    /\ [][\A a \in ArrIds, new_size \in 1 .. MaxSize :
            (arr[a].op = "clear" /\ ArrResize(a, new_size, TRUE)) =>
                /\ Len(bufs') = Len(bufs) + 1
                /\ bufs'[Len(bufs')].frees = 0
                /\ \A p \in Nodelets :
                      size(a, p)' = new_size /\ arr'[a].ptr[p] = Len(bufs')]_vars

\* C17 witness: a sized array was cleared on several nodelets: its buffer is
\* freed once and every copy of the pointer is null.
ClearedSizedArray ==
    /\ akind = "striped"
    /\ nodelets >= 2
    /\ arr[1].op = "clear"
    /\ Len(bufs) >= 1 /\ bufs[1].frees = 1
    /\ \A p \in Nodelets : arr[1].ptr[p] = nullptr /\ size(1, p) = 0

\* C19: every failed allocation is fatal: execution stops at it, no object
\* is constructed in the missing storage, no data is copied, no buffer is
\* freed and no size is changed.
AllocationFailureIsFatal ==
    /\ [](run.failed # "none" => (run.halt = "oom" /\ run.mir # "onnull"))
    /\ [][run'.failed # run.failed =>
            (arr' = arr /\ bufs' = bufs /\ run'.halt = "oom")]_vars

\* C18: after a = b the array a has b's size and element values on every
\* nodelet, b is unchanged and the buffer a held has been released exactly
\* once; when the allocation for the copy fails a is exactly as before.
CopyAssignCopies ==
    [][\A a, b \in ArrIds :
          /\ ArrAssign(a, b, TRUE, FALSE) =>
                /\ arr'[b] = arr[b]
                /\ Valid(arr[a].ptr[loc]) => bufs'[arr[a].ptr[loc]].frees = 1
                /\ \A p \in Nodelets : size(a, p)' = size(b, p)'
                /\ \A p \in Nodelets :
                      size(a, p)' > 0 =>
                          /\ Valid(arr[a].ptr[p])'
                          /\ \A i \in 0 .. size(a, p)' - 1 :
                                ArrRead(a, i, p)' = ArrRead(b, i, p)'
          /\ (\E debug \in BOOLEAN : ArrAssign(a, b, FALSE, debug)) =>
                arr' = arr /\ bufs' = bufs]_vars

\* ------------------------------------------------ repl_array::get_nth

\* T *get_nth(long n) { return data_.get_nth(n); }
\* repl<T*>::get_nth(n) is nodelet n's copy of the member data_: the pointer
\* mw_mallocrepl returned, a replicated address.
get_nth(a, n) == arr[a].ptr[n]

\* get_nth(p)[i] as a task on nodelet q reads it.
ReadNth(a, p, i, q) ==
    LET c == ReplAt(q, i)
    IN bufs[get_nth(a, p)].data[c[1]][c[2]]

\* a.get_nth(p)[i] = v by the task on nodelet loc, i < size().
ArrWriteNth(a, p, i) ==
    /\ ~Halted
    /\ akind = "repl"
    /\ arr[a].st = "live"
    /\ run.nw < Len(WriteSeq)
    /\ i < size(a, loc)
    /\ LET c == ReplAt(loc, i)
           ptr == get_nth(a, p)
       IN IF Valid(ptr)
          THEN /\ bufs' = [bufs EXCEPT ![ptr].data[c[1]][c[2]] = WriteSeq[run.nw + 1]]
               /\ run' = [run EXCEPT !.nw = @ + 1]
          ELSE /\ bufs' = bufs
               /\ \E h \in {"none", "fault"} :
                     run' = [run EXCEPT !.nw = @ + 1, !.halt = h]
    /\ arr' = [arr EXCEPT ![a].op = "write_nth"]
    /\ UNCHANGED <<akind, loc, arrayOthers>>

ArrayNthNext ==
    \/ \E ok \in BOOLEAN : ArrNew(ok)
    \/ \E a \in Subject : ArrDefault(a)
    \/ \E a \in Subject, n \in 1 .. MaxSize, ok \in BOOLEAN : ArrSized(a, n, ok)
    \/ \E a \in Subject, i \in 0 .. MaxSize - 1 : ArrWrite(a, i)
    \/ \E a \in Subject, p \in Nodelets, i \in 0 .. MaxSize - 1 : ArrWriteNth(a, p, i)
    \/ \E a \in Subject, n \in 0 .. MaxSize, ok \in BOOLEAN : ArrResize(a, n, ok)
    \/ \E n \in Nodelets : Migrate(n)

SpecArrayNth == SpecArrayInit /\ [][ArrayNthNext]_vars

\* C24: a write to get_nth(p)[k] of a repl_array, made from any nodelet,
\* changes element k of nodelet p's buffer and no element of another
\* nodelet's buffer, and is read back through get_nth(p)[k] by a task on any
\* nodelet.
GetNthResolvesSlice ==
    [][\A a \in ArrIds, p \in Nodelets, i \in 0 .. MaxSize - 1 :
          ArrWriteNth(a, p, i) /\ ~Halted' =>
              /\ ReplElem(a, p, i)' = WriteSeq[run.nw + 1]
              /\ \A q \in Nodelets : ReadNth(a, p, i, q)' = WriteSeq[run.nw + 1]
              /\ \A r \in Nodelets \ {p}, k \in 0 .. size(a, loc) - 1 :
                    ReplElem(a, r, k)' = ReplElem(a, r, k)]_vars

\* ------------------------------------------------- copy construction

\* striped_array(const self_type& other) / repl_array(const repl_array& other)
\* by the task on nodelet loc: the new array a lies in replicated storage,
\* its members are initialised on every nodelet, then the elements are
\* copied.  With other.size() = 0 nothing is copied.
ArrCopyConstruct(a, b, ok) ==
    /\ ~Halted
    /\ a # b
    /\ run.store = "ok"
    /\ arr[a].st = "none" /\ arr[b].st = "live"
    /\ Len(bufs) < MaxAllocs
    /\ LET n == size(b, loc)
           src == arr[b].ptr[loc]
           new_ptr == Len(bufs) + 1
           fresh == allocate(bufs, n)
           copied == IF ~Readable(src, n) THEN fresh
                     ELSE IF akind = "striped"
                          THEN StripedCopy(fresh, new_ptr, src, n)
                          ELSE ReplCopyLocal(fresh, new_ptr, arr[b].ptr, n, loc)
       IN IF ok
          THEN /\ bufs' = copied
               /\ arr' = [arr EXCEPT ![a] =
                             [st |-> "live",
                              ptr |-> AssignAll(Zero, 0, new_ptr),
                              n |-> AssignAll(Zero, 0, n),
                              op |-> "copy"]]
               /\ UNCHANGED run
          ELSE /\ run' = EMU_OUT_OF_MEMORY(run, "copy")
               /\ UNCHANGED <<arr, bufs>>
    /\ UNCHANGED <<akind, loc, arrayOthers>>

\* The array that is copied.
Source == ArrIds \ Subject

ArrayCopyNext ==
    \/ \E ok \in BOOLEAN : ArrNew(ok)
    \/ \E b \in Source : ArrDefault(b)
    \/ \E b \in Source, n \in 1 .. MaxSize, ok \in BOOLEAN : ArrSized(b, n, ok)
    \/ \E a \in ArrIds, i \in 0 .. MaxSize - 1 : ArrWrite(a, i)
    \/ \E a \in Subject, b \in Source, ok \in BOOLEAN : ArrCopyConstruct(a, b, ok)
    \/ \E n \in Nodelets : Migrate(n)

SpecArrayCopy == SpecArrayInit /\ [][ArrayCopyNext]_vars

\* The new array has the size of the source on every nodelet and storage
\* of its own.
CopyHasOwnStorage(a, b) ==
    /\ \A p \in Nodelets : size(a, p)' = size(b, p) /\ size(b, p)' = size(b, p)
    /\ \A p, q \in Nodelets : arr'[a].ptr[p] # arr[b].ptr[q]
    /\ arr'[b] = arr[b]
    /\ \A x \in 1 .. Len(bufs) : bufs'[x] = bufs[x]

\* C25: copy construction yields an array of the size of the source whose
\* every element equals the source's -- for a repl_array element for element
\* in every nodelet's buffer -- in separately allocated storage, the source
\* being left as it was; an empty source yields an empty array.
CopyConstructCopiesAll ==
    [][\A a, b \in ArrIds :
          ArrCopyConstruct(a, b, TRUE) =>
              /\ CopyHasOwnStorage(a, b)
              /\ akind = "striped" =>
                    \A q \in Nodelets, i \in 0 .. size(b, loc) - 1 :
                        ArrRead(a, i, q)' = ArrRead(b, i, q)
              /\ akind = "repl" =>
                    \A p \in Nodelets, k \in 0 .. size(b, loc) - 1 :
                        ReplElem(a, p, k)' = ReplElem(b, p, k)]_vars

\* ======================================================================
\* reducer_base::get_value / repl_reduce  (src/reducers.h, src/replicated.h)
\* ======================================================================

\* A T, and what is not a T: a pointer handed over where a T is expected.
Val(x) == [kind |-> "value", v |-> x]
NotT(p) == [kind |-> "pointer", at |-> p]
NoResult == [kind |-> "none", v |-> 0]

\* The copies of the reducer: one per nodelet in replicated storage, one
\* otherwise.
AccCopies(where) == IF is_repl(where) THEN Nodelets ELSE {0}

\* The copy that `this` denotes for the task.
AccHere(where) == IF is_repl(where) THEN loc ELSE 0

\* A reducer_opadd<long>, in replicated storage or not, after construction:
\* every copy's local_sum_ is identity().
AccInit ==
    \E where \in {"replicated", "stack"} :
        ra = [where |-> where,
              local_sum_ |-> [n \in AccCopies(where) |-> identity],
              cnt |-> 0,
              got |-> NoResult]

\* void operator+=(T& rhs) { this->local_sum_ += rhs; } on the object itself.
AccAdd(rhs) ==
    /\ ra.got = NoResult
    /\ ra.cnt < MaxAdds
    /\ ra' = [ra EXCEPT !.local_sum_[AccHere(ra.where)] = @ + rhs, !.cnt = @ + 1]
    /\ UNCHANGED <<loc, accOthers>>

\* static T reduce(T &lhs, T &rhs) { return lhs + rhs; }
op_add_reduce(lhs, rhs) ==
    IF lhs.kind = "value" /\ rhs.kind = "value" THEN Val(lhs.v + rhs.v)
    ELSE IF lhs.kind = "value" THEN rhs ELSE lhs

\* The operand repl_reduce(T&, F) takes for nodelet nlet:
\*     emu::pmanip::get_nth(&ref, nlet)
\* the pointer to the copy, not the copy.
ReduceOperand(nlet) == NotT(pmanip_get_nth("local_sum_", nlet))

RECURSIVE repl_reduce_upto(_)
\* value after the loop iteration for nodelet nlet:
\*     T value = emu::pmanip::get_nth(&ref, 0);
\*     value = reduce(value, emu::pmanip::get_nth(&ref, nlet));
repl_reduce_upto(nlet) ==
    IF nlet = 0 THEN ReduceOperand(0)
    ELSE op_add_reduce(repl_reduce_upto(nlet - 1), ReduceOperand(nlet))

\* T repl_reduce(T& ref, F reduce)
repl_reduce == repl_reduce_upto(nodelets - 1)

\* T& get_value()
AccGetValue ==
    /\ ra.got = NoResult
    /\ ra' = [ra EXCEPT !.got =
                 IF is_repl(ra.where) THEN repl_reduce
                 ELSE Val(ra.local_sum_[AccHere(ra.where)])]
    /\ UNCHANGED <<loc, accOthers>>

AccNext ==
    \/ \E rhs \in Incs : AccAdd(rhs)
    \/ AccGetValue
    \/ \E n \in Nodelets : Migrate(n)

SpecAccInit ==
    /\ nodelets \in 1 .. MaxNodelets /\ loc \in Nodelets
    /\ AccInit /\ MutexIdle /\ WalkIdle /\ ReduceIdle /\ ReplIdle /\ ShallowIdle
    /\ DeepIdle /\ ArrayIdle /\ KindIdle /\ SlotIdle /\ AllocIdle

SpecAcc == SpecAccInit /\ [][AccNext]_vars

RECURSIVE SumCopies(_)
\* The local accumulators folded from nodelet 0 up to nodelet n.
SumCopies(n) ==
    IF n = 0 THEN ra.local_sum_[0] ELSE SumCopies(n - 1) + ra.local_sum_[n]

\* C23: get_value() of a reducer in replicated storage returns the local
\* accumulators of all nodelets folded from nodelet 0 to NODELETS()-1 (their
\* sum); of a reducer that is not replicated it returns the local
\* accumulator.
GetValueFoldsAllCopies ==
    ra.got # NoResult =>
        ra.got = IF is_repl(ra.where)
                 THEN Val(SumCopies(nodelets - 1))
                 ELSE Val(ra.local_sum_[0])

\* ---------------------------------------------------------------- replicated accumulator
\* repl_shallow<reducer_opadd<long>>: one copy of the reducer per nodelet,
\* and on each nodelet a task with a view copied from the local copy.

\* &local_sum_ of the replicated object: a replicated address, which denotes
\* the copy on the nodelet of the task that dereferences it.
LocalSumAddr == 0

\* A view that is not constructed.
NoChild == [st |-> "none", local_sum_ |-> 0, global_sum_ |-> NULL, cnt |-> 0, added |-> 0]

\* repl_shallow(Args&&...) run by a task on nodelet loc:
\*   T()                              -- reducer_base(): global_sum_(&local_sum_)
\*   do_shallow_copy(remote, local)   -- new (remote) T(*local, shallow_copy()):
\*                                       global_sum_(nullptr)
ReplAccInit ==
    ra = [where |-> "replicated",
          local_sum_ |-> [n \in Nodelets |-> identity],
          global_sum_ |-> [n \in Nodelets |-> IF n = loc THEN LocalSumAddr ELSE NULL],
          child |-> [n \in Nodelets |-> NoChild],
          got |-> NoResult]

\* reducer_base(const reducer_base &other) by the task on nodelet n, other
\* being the replicated object, i.e. nodelet n's copy.
ChildCopyConstruct(n) ==
    /\ ra.got = NoResult
    /\ ra.child[n].st = "none"
    /\ ra' = [ra EXCEPT !.child[n] =
                 [NoChild EXCEPT !.st = "live", !.local_sum_ = identity,
                                 !.global_sum_ = ra.global_sum_[n]]]
    /\ UNCHANGED <<loc, accOthers>>

\* operator+=(T& rhs) on the view of the task on nodelet n.
ChildAdd(n, rhs) ==
    /\ ra.child[n].st = "live"
    /\ ra.child[n].cnt < MaxAdds
    /\ ra' = [ra EXCEPT !.child[n].local_sum_ = @ + rhs, !.child[n].cnt = @ + 1,
                        !.child[n].added = @ + rhs]
    /\ UNCHANGED <<loc, accOthers>>

\* ~reducer_base() of the view of the task on nodelet n:
\*   if (global_sum_ && global_sum_ != &local_sum_)
\*       Monoid::reduce(global_sum_, local_sum_);   -- remote_add
\* global_sum_ is never the view's own &local_sum_; LocalSumAddr denotes
\* nodelet n's copy for this task.
ChildDestroy(n) ==
    /\ ra.child[n].st = "live"
    /\ ra' = [ra EXCEPT !.child[n].st = "dead",
                        !.local_sum_[n] = IF ra.child[n].global_sum_ # NULL
                                          THEN @ + ra.child[n].local_sum_ ELSE @]
    /\ UNCHANGED <<loc, accOthers>>

\* get_value() on the replicated object, once every view is destroyed.
ReplAccGetValue ==
    /\ ra.got = NoResult
    /\ \A n \in Nodelets : ra.child[n].st = "dead"
    /\ ra' = [ra EXCEPT !.got = IF is_repl(ra.where) THEN repl_reduce
                                ELSE Val(ra.local_sum_[loc])]
    /\ UNCHANGED <<loc, accOthers>>

ReplAccNext ==
    \/ \E n \in Nodelets : ChildCopyConstruct(n)
    \/ \E n \in Nodelets, rhs \in Incs : ChildAdd(n, rhs)
    \/ \E n \in Nodelets : ChildDestroy(n)
    \/ ReplAccGetValue

SpecReplAccInit ==
    /\ nodelets \in 1 .. MaxNodelets /\ loc \in Nodelets
    /\ ReplAccInit /\ MutexIdle /\ WalkIdle /\ ReduceIdle /\ ReplIdle /\ ShallowIdle
    /\ DeepIdle /\ ArrayIdle /\ KindIdle /\ SlotIdle /\ AllocIdle

SpecReplAcc == SpecReplAccInit /\ [][ReplAccNext]_vars

RECURSIVE SumChildren(_)
\* What the views of nodelets 0..n were handed by +=.
SumChildren(n) ==
    IF n = 0 THEN ra.child[0].added ELSE SumChildren(n - 1) + ra.child[n].added

\* C35: replicated accumulator -- once the view of every nodelet has added
\* its values and is destroyed, the fold of the copies' accumulators from
\* nodelet 0 to NODELETS()-1, which is what get_value() is to return, equals
\* the sum of the contributions of the views of all nodelets: no nodelet's
\* views are dropped.
ReplicatedSumComplete ==
    (\A n \in Nodelets : ra.child[n].st = "dead") =>
        SumCopies(nodelets - 1) = SumChildren(nodelets - 1)

\* ======================================================================
\* localmalloc_resource: the alloc protocol of the design comment
\* (src/localmalloc_resource.h)
\* ======================================================================

\* The threads that allocate.
Allocators == {t \in Threads : t <= MaxRivals}

\* A thread outside alloc.
NotAllocating == [pc |-> "idle", at |-> 0, k |-> 0]

\* "Create a free list on each nodelet": every lock is free, each free list
\* has room or not.
AllocInit ==
    /\ llock = [n \in Nodelets |-> 0]
    /\ glock = 0
    /\ room \in [Nodelets -> BOOLEAN]
    /\ apc = [t \in Allocators |-> NotAllocating]

\* A thread calls alloc for nodelet n.
AllocCall(t, n) ==
    /\ apc[t].pc = "idle"
    /\ apc' = [apc EXCEPT ![t] = [pc |-> "lock_local", at |-> n, k |-> 0]]
    /\ UNCHANGED <<llock, glock, room>>
    /\ UNCHANGED allocOthers

\* 1. Acquire a lock on the target nodelet
\* 2. Try to satisfy the allocation from the local free list
\* 3. Not enough room? Acquire a global lock  -- the thread goes on to it.
AcquireLocal(t) ==
    /\ apc[t].pc = "lock_local"
    /\ llock[apc[t].at] = 0
    /\ llock' = [llock EXCEPT ![apc[t].at] = t]
    /\ apc' = [apc EXCEPT ![t].pc = IF room[apc[t].at] THEN "satisfy" ELSE "lock_global"]
    /\ UNCHANGED <<glock, room>>
    /\ UNCHANGED allocOthers

\* 3. ... Acquire a global lock
\* 4. Check the local free list again
\* 5. Call mw_mallocstripe to get some more memory everywhere
AcquireGlobal(t) ==
    /\ apc[t].pc = "lock_global"
    /\ glock = 0
    /\ glock' = t
    /\ apc' = [apc EXCEPT ![t].pc = IF room[apc[t].at] THEN "satisfy" ELSE "refill",
                           ![t].k = 0]
    /\ UNCHANGED <<llock, room>>
    /\ UNCHANGED allocOthers

\* Faulty variant of RefillOther: memory is added to the other nodelet's
\* free list without acquiring its local lock.
RefillNoLock(t) ==
    /\ apc[t].pc = "refill"
    /\ apc[t].k < nodelets
    /\ apc[t].k # apc[t].at
    /\ room' = [room EXCEPT ![apc[t].k] = TRUE]
    /\ apc' = [apc EXCEPT ![t].k = @ + 1]
    /\ UNCHANGED <<llock, glock>>
    /\ UNCHANGED allocOthers

\* 6. Add memory to every local free list. Need to acquire each local lock
\* once.  -- another nodelet's list: its lock is acquired, the memory
\* added, the lock released.
RefillOther(t) ==
    /\ apc[t].pc = "refill"
    /\ apc[t].k < nodelets
    /\ apc[t].k # apc[t].at
    /\ llock[apc[t].k] = 0
    /\ room' = [room EXCEPT ![apc[t].k] = TRUE]
    /\ apc' = [apc EXCEPT ![t].k = @ + 1]
    /\ UNCHANGED <<llock, glock>>
    /\ UNCHANGED allocOthers

\* The target nodelet's own list: its lock is held since step 1.
RefillOwn(t) ==
    /\ apc[t].pc = "refill"
    /\ apc[t].k < nodelets
    /\ apc[t].k = apc[t].at
    /\ room' = [room EXCEPT ![apc[t].k] = TRUE]
    /\ apc' = [apc EXCEPT ![t].k = @ + 1]
    /\ UNCHANGED <<llock, glock>>
    /\ UNCHANGED allocOthers

\* Every list has been added to.
RefillDone(t) ==
    /\ apc[t].pc = "refill"
    /\ apc[t].k >= nodelets
    /\ apc' = [apc EXCEPT ![t].pc = "satisfy"]
    /\ UNCHANGED <<llock, glock, room>>
    /\ UNCHANGED allocOthers

\* 6. Satisfy the original allocation from the local free list: the list
\* may or may not have room for another allocation afterwards.
Satisfy(t, left) ==
    /\ apc[t].pc = "satisfy"
    /\ room[apc[t].at]
    /\ room' = [room EXCEPT ![apc[t].at] = left]
    /\ apc' = [apc EXCEPT ![t].pc = IF glock = t THEN "unlock_global" ELSE "unlock_local"]
    /\ UNCHANGED <<llock, glock>>
    /\ UNCHANGED allocOthers

\* 7. Unlock global lock
UnlockGlobal(t) ==
    /\ apc[t].pc = "unlock_global"
    /\ glock' = 0
    /\ apc' = [apc EXCEPT ![t].pc = "unlock_local"]
    /\ UNCHANGED <<llock, room>>
    /\ UNCHANGED allocOthers

\* 8. Unlock local lock
UnlockLocal(t) ==
    /\ apc[t].pc = "unlock_local"
    /\ llock' = [llock EXCEPT ![apc[t].at] = 0]
    /\ apc' = [apc EXCEPT ![t] = NotAllocating]
    /\ UNCHANGED <<glock, room>>
    /\ UNCHANGED allocOthers

AllocNext ==
    \/ \E t \in Allocators, n \in Nodelets : AllocCall(t, n)
    \/ \E t \in Allocators : AcquireLocal(t)
    \/ \E t \in Allocators : AcquireGlobal(t)
    \/ \E t \in Allocators : RefillOther(t)
    \/ \E t \in Allocators : RefillOwn(t)
    \/ \E t \in Allocators : RefillDone(t)
    \/ \E t \in Allocators, left \in BOOLEAN : Satisfy(t, left)
    \/ \E t \in Allocators : UnlockGlobal(t)
    \/ \E t \in Allocators : UnlockLocal(t)

\* Two nodelets or more: one to run out of room, one to add memory to.
SpecAllocInit ==
    /\ nodelets \in 2 .. (MaxNodelets - 2) /\ loc = 0
    /\ AllocInit /\ MutexIdle /\ WalkIdle /\ ReduceIdle /\ ReplIdle /\ ShallowIdle
    /\ DeepIdle /\ ArrayIdle /\ KindIdle /\ AccIdle /\ SlotIdle

SpecAlloc == SpecAllocInit /\ [][AllocNext]_vars

\* Thread a holds the global lock and waits, to add memory, for the local
\* lock of a nodelet; that lock is held by thread b, which waits for the
\* global lock.
WaitsInCycle(a, b) ==
    /\ glock = a /\ apc[a].pc = "refill"
    /\ apc[a].k < nodelets /\ apc[a].k # apc[a].at
    /\ llock[apc[a].k] = b
    /\ apc[b].pc = "lock_global" /\ apc[b].at = apc[a].k

\* Thread t cannot take a step: it waits for a lock another thread holds.
Blocked(t) ==
    \/ apc[t].pc = "lock_local" /\ llock[apc[t].at] # 0
    \/ apc[t].pc = "lock_global" /\ glock # 0
    \/ /\ apc[t].pc = "refill" /\ apc[t].k < nodelets /\ apc[t].k # apc[t].at
       /\ llock[apc[t].k] # 0

\* C34: the alloc protocol can deadlock -- once the thread that holds the
\* global lock waits for the local lock of a nodelet whose holder waits for
\* the global lock, neither ever takes another step, neither lock is ever
\* released, and no thread that is inside alloc for either of the two
\* nodelets, or that needs more memory, ever completes its allocation.
AllocDeadlock ==
    [][\A a, b \in Allocators :
          WaitsInCycle(a, b) =>
              /\ WaitsInCycle(a, b)'
              /\ apc'[a] = apc[a] /\ apc'[b] = apc[b]
              /\ \A t \in Allocators :
                    (apc[t].pc = "unlock_local" /\ apc'[t].pc = "idle")
                        => (apc[t].at \notin {apc[a].at, apc[b].at} /\ glock # t)
              /\ \A t \in Allocators :
                    (apc[t].pc # "satisfy" /\ apc'[t].pc = "satisfy")
                        => (room[apc[t].at] /\ apc[t].at \notin {apc[a].at, apc[b].at})]_vars

\* C34 witness: two nodelets ran out of room at the same time; the thread
\* that holds the global lock waits for the other nodelet's local lock, the
\* holder of that lock waits for the global lock, and every thread is
\* inside alloc and blocked.
AllocAllBlocked ==
    /\ \E a, b \in Allocators :
          WaitsInCycle(a, b) /\ ~room[apc[a].at] /\ ~room[apc[b].at]
    /\ \A t \in Allocators : Blocked(t)


\* ======================================================================
\* striped_array<T>, repl_array<T>: lifetime of the buffers
\* (src/striped_array.h, src/repl_array.h)
\* ======================================================================

\* ~striped_array() { free_storage(); }
\* ~repl_array() { if (data_) { mw_free(data_); } }
\* run by the task on nodelet loc, which reads its nodelet's copy of the
\* pointer.  free_storage() also stores nullptr in ptr_.
ArrDestroy(a) ==
    /\ ~Halted
    /\ arr[a].st = "live"
    /\ LET p == arr[a].ptr[loc]
       IN /\ bufs' = free_storage(bufs, p)
          /\ arr' = [arr EXCEPT
                 ![a].st = "dead",
                 ![a].ptr = IF akind = "striped" THEN free_storage_ptr(@, p) ELSE @,
                 ![a].op = "destroy"]
    /\ UNCHANGED <<akind, run, loc, arrayOthers>>

\* friend void swap(self_type& first, self_type& second) on two arrays of
\* the replicated storage: repl_swap finds both members replicated and
\* swaps the copies of every nodelet.
ArrSwap(a, b) ==
    /\ ~Halted
    /\ a # b
    /\ arr[a].st = "live" /\ arr[b].st = "live"
    /\ arr' = [arr EXCEPT
           ![a].ptr = arr[b].ptr, ![a].n = arr[b].n, ![a].op = "swap",
           ![b].ptr = arr[a].ptr, ![b].n = arr[a].n, ![b].op = "swap"]
    /\ UNCHANGED <<akind, bufs, run, loc, arrayOthers>>

\* striped_array(self_type&& other) noexcept : striped_array()
\* { swap(*this, other); }        (repl_array alike)
\* The new array a is default-constructed, then swapped with other.
ArrMoveConstruct(a, b) ==
    /\ ~Halted
    /\ a # b
    /\ run.store = "ok"
    /\ arr[a].st = "none" /\ arr[b].st = "live"
    /\ arr' = [arr EXCEPT
           ![a] = [st |-> "live", ptr |-> arr[b].ptr, n |-> arr[b].n,
                   op |-> "move"],
           ![b].ptr = AssignAll(Zero, 0, nullptr),
           ![b].n = AssignAll(Zero, 0, 0),
           ![b].op = "moved"]
    /\ UNCHANGED <<akind, bufs, run, loc, arrayOthers>>

ArrayLifeNext ==
    \/ \E ok \in BOOLEAN : ArrNew(ok)
    \/ \E a \in ArrIds : ArrDefault(a)
    \/ \E a \in ArrIds, n \in 1 .. MaxSize, ok \in BOOLEAN : ArrSized(a, n, ok)
    \/ \E a, b \in ArrIds, ok \in BOOLEAN : ArrCopyConstruct(a, b, ok)
    \/ \E a, b \in ArrIds : ArrMoveConstruct(a, b)
    \/ \E a, b \in ArrIds, ok, debug \in BOOLEAN : ArrAssign(a, b, ok, debug)
    \/ \E a, b \in ArrIds : ArrSwap(a, b)
    \/ \E a \in ArrIds, n \in 0 .. MaxSize, ok \in BOOLEAN : ArrResize(a, n, ok)
    \/ \E a \in ArrIds : ArrClear(a)
    \/ \E a \in ArrIds : ArrDestroy(a)
    \/ \E n \in Nodelets : Migrate(n)

\* One nodelet, or two: the copies of a pointer can differ from two on.
SpecArrayLifeInit ==
    /\ nodelets \in 1 .. (MaxNodelets - 2) /\ loc \in Nodelets
    /\ ArrayInit /\ MutexIdle /\ WalkIdle /\ ReduceIdle /\ ReplIdle /\ ShallowIdle
    /\ DeepIdle /\ KindIdle /\ AccIdle /\ SlotIdle /\ AllocIdle

SpecArrayLife == SpecArrayLifeInit /\ [][ArrayLifeNext]_vars

\* Every array that was constructed has been destroyed.
AllDestroyed ==
    /\ \E a \in ArrIds : arr[a].st = "dead"
    /\ \A a \in ArrIds : arr[a].st # "live"

\* C37: whatever sequence of default and sized construction, copy and move
\* construction, copy assignment, swap, resize, clear and destruction is
\* applied, no buffer is freed twice, no buffer is left allocated once every
\* array is destroyed, no copy of a live array's buffer pointer refers to a
\* freed buffer, and a moved-from array has size 0 and a null pointer.
BufferLifetime ==
    /\ \A p \in 1 .. Len(bufs) : bufs[p].frees <= 1
    /\ (~Halted /\ AllDestroyed) => \A p \in 1 .. Len(bufs) : bufs[p].frees = 1
    /\ \A a \in ArrIds : arr[a].st = "live" =>
          \A nd \in Nodelets : arr[a].ptr[nd] = nullptr \/ Valid(arr[a].ptr[nd])
    /\ \A a \in ArrIds : (arr[a].st = "live" /\ arr[a].op = "moved") =>
          \A nd \in Nodelets : arr[a].ptr[nd] = nullptr /\ arr[a].n[nd] = 0


\* ======================================================================
\* repl_shallow<T> with T = striped_array<long> / repl_array<long>
\* (src/replicated.h, src/striped_array.h, src/repl_array.h)
\* ======================================================================

\* The aggregate that is built from its arguments, and the one that is
\* copy-constructed from it.
Aggregate == Subject
AggregateCopy == ArrIds \ Subject

\* new repl_shallow<T>(n) by the task on nodelet loc: T(n) allocates the
\* buffer and stores pointer and size, then the loop runs the shallow copy
\* constructor  T(const T& other, shallow_copy) : ptr_(other.ptr_), n_(other.n_)
\* for every other nodelet's copy.
ShallowArrConstruct(a, n, ok) ==
    /\ ~Halted
    /\ run.store = "ok"
    /\ arr[a].st = "none"
    /\ Len(bufs) < MaxAllocs
    /\ IF ok
       THEN /\ bufs' = allocate(bufs, n)
            /\ arr' = [arr EXCEPT ![a] =
                   [st |-> "live",
                    ptr |-> ShallowReplicate(AssignAll(Zero, 0, Len(bufs) + 1),
                                             LocalCopy, 0),
                    n |-> ShallowReplicate(AssignAll(Zero, 0, n), LocalCopy, 0),
                    op |-> "sized"]]
            /\ UNCHANGED run
       ELSE /\ run' = EMU_OUT_OF_MEMORY(run, "sized")
            /\ UNCHANGED <<arr, bufs>>
    /\ UNCHANGED <<akind, loc, arrayOthers>>

\* new repl_shallow<T>(other): repl_shallow(const repl_shallow& other)
\* : T(other, shallow_copy()), then do_shallow_copy(&get_nth(i),
\* &other.get_nth(i)) for every nodelet.  No buffer is allocated: the new
\* aggregate holds the pointer of the source.
ShallowArrCopyConstruct(a, b) ==
    /\ ~Halted
    /\ run.store = "ok"
    /\ arr[a].st = "none" /\ arr[b].st = "live"
    /\ arr' = [arr EXCEPT ![a] =
           [st |-> "live",
            ptr |-> ShallowCopyEach(AssignAll(Zero, 0, arr[b].ptr[loc]),
                                    arr[b].ptr, 0, loc),
            n |-> ShallowCopyEach(AssignAll(Zero, 0, arr[b].n[loc]),
                                  arr[b].n, 0, loc),
            op |-> "shallow"]]
    /\ UNCHANGED <<akind, bufs, run, loc, arrayOthers>>

\* delete of an aggregate runs ~T() through this, on the copy of the
\* nodelet the task is on: ArrDestroy.
ShallowArrayNext ==
    \/ \E ok \in BOOLEAN : ArrNew(ok)
    \/ \E a \in Aggregate, n \in 1 .. MaxSize, ok \in BOOLEAN :
          ShallowArrConstruct(a, n, ok)
    \/ \E a \in AggregateCopy, b \in Aggregate : ShallowArrCopyConstruct(a, b)
    \/ \E a \in ArrIds, i \in 0 .. MaxSize - 1 : ArrWrite(a, i)
    \/ \E a \in ArrIds : ArrDestroy(a)
    \/ \E n \in Nodelets : Migrate(n)

SpecShallowArray == SpecArrayInit /\ [][ShallowArrayNext]_vars

\* C38: the buffer a repl_shallow<T> and its copy-constructed copy share is
\* freed at most once, exactly once when both are destroyed, and no copy of
\* an aggregate that is alive holds a pointer to a freed buffer.
SharedBufferFreedOnce ==
    /\ \A p \in 1 .. Len(bufs) : bufs[p].frees <= 1
    /\ (~Halted /\ \A a \in ArrIds : arr[a].st = "dead") =>
          \A p \in 1 .. Len(bufs) : bufs[p].frees = 1
    /\ \A a \in ArrIds : arr[a].st = "live" =>
          \A nd \in Nodelets : arr[a].ptr[nd] = nullptr \/ Valid(arr[a].ptr[nd])

====
